---------------------------- MODULE Spec2Model ----------------------------
(***************************************************************************)
(* A model of the Renegade external match client:                          *)
(*   - RelayerHttpClient (src/src/http.ts): the HMAC request signer, the   *)
(*     BigInt-safe JSON codec and the authenticated transport;             *)
(*   - ExternalMatchClient (src/unnamed/part_001): requestQuote and        *)
(*     assembleQuote on top of it.                                         *)
(*                                                                         *)
(* Text is modelled as a sequence of one-character strings, so that the    *)
(* bytes fed to the MAC, the header names and the JSON text are what the   *)
(* code computes and not opaque tokens.  Every character of the model is   *)
(* ASCII, so UTF-8 bytes (TextEncoder) and characters coincide.            *)
(***************************************************************************)
EXTENDS Integers, Sequences, FiniteSets, TLC

(***************************************************************************)
(* Bounds of the model.                                                    *)
(***************************************************************************)
MaxCalls == 2
MaxHttpCalls == 1
MaxLifeCalls == 1
MaxClock == 1
MaxMutations == 1

(***************************************************************************)
(* Characters.                                                             *)
(***************************************************************************)
UpperToLower ==
    ("A" :> "a") @@ ("B" :> "b") @@ ("C" :> "c") @@ ("D" :> "d") @@ ("E" :> "e") @@ ("F" :> "f") @@
    ("G" :> "g") @@ ("H" :> "h") @@ ("I" :> "i") @@ ("J" :> "j") @@ ("K" :> "k") @@ ("L" :> "l") @@
    ("M" :> "m") @@ ("N" :> "n") @@ ("O" :> "o") @@ ("P" :> "p") @@ ("Q" :> "q") @@ ("R" :> "r") @@
    ("S" :> "s") @@ ("T" :> "t") @@ ("U" :> "u") @@ ("V" :> "v") @@ ("W" :> "w") @@ ("X" :> "x") @@
    ("Y" :> "y") @@ ("Z" :> "z")

Digits ==
    <<"0","1","2","3","4","5","6","7","8","9">>

\* The order of the primary collation keys of the characters of the model
\* (punctuation, then digits, then letters), the letter case being a
\* difference of lower weight.
CollationOrder ==
    <<" ","_","-",",",":","?",".","\"","{","}","/","&","=">> \o
    Digits \o
    <<"a","b","c","d","e","f","g","h","i","j","k","l","m","n","o","p","q","r","s","t","u","v","w","x","y","z">>

IsUpper(ch) ==
    ch \in DOMAIN UpperToLower

\* String.prototype.toLowerCase, on one character.
LowerChar(ch) ==
    IF IsUpper(ch) THEN UpperToLower[ch] ELSE ch

\* String.prototype.toLowerCase.
toLowerCase(s) ==
    [i \in 1..Len(s) |-> LowerChar(s[i])]

PrimaryRank ==
    [ch \in {CollationOrder[i] : i \in 1..Len(CollationOrder)} |->
        CHOOSE i \in 1..Len(CollationOrder) : CollationOrder[i] = ch]

Primary(ch) ==
    PrimaryRank[LowerChar(ch)]

MinOf(S) ==
    CHOOSE x \in S : \A y \in S : x <= y

\* String.prototype.startsWith.
startsWith(s, prefix) ==
    /\ Len(prefix) <= Len(s)
    /\ SubSeq(s, 1, Len(prefix)) = prefix

\* String.prototype.localeCompare: -1, 0 or 1.  The primary keys (letters
\* without their case) decide first, a proper prefix sorting first; between
\* strings that differ in case only, the first difference decides, lower case
\* first.
localeCompare(a, b) ==
    LET n == IF Len(a) < Len(b) THEN Len(a) ELSE Len(b)
        pd == {i \in 1..n : Primary(a[i]) # Primary(b[i])}
        cd == {i \in 1..n : a[i] # b[i]}
    IN  IF pd # {}
        THEN IF Primary(a[MinOf(pd)]) < Primary(b[MinOf(pd)]) THEN -1 ELSE 1
        ELSE IF Len(a) < Len(b) THEN -1
        ELSE IF Len(a) > Len(b) THEN 1
        ELSE IF cd = {} THEN 0
        ELSE IF IsUpper(b[MinOf(cd)]) THEN -1 ELSE 1

RECURSIVE NatToString(_)
\* The decimal digits of a natural number.
NatToString(n) ==
    IF n < 10 THEN <<Digits[n + 1]>>
    ELSE NatToString(n \div 10) \o <<Digits[(n % 10) + 1]>>

\* Number.prototype.toString / BigInt.prototype.toString, base 10.
IntToString(n) ==
    IF n < 0 THEN <<"-">> \o NatToString(-n) ELSE NatToString(n)

(***************************************************************************)
(* JavaScript values.  A value is a record tagged by t:                    *)
(*   undefined, null, bool, number (v: an integer), bigint (v: its decimal  *)
(*   text, of any length), string (v: text), object (v: the sequence of    *)
(*   its own properties [k, v], in insertion order), and ref (id: an       *)
(*   object owned by the caller, held by reference and found in the heap). *)
(***************************************************************************)
Undefined == [t |-> "undefined"]
Null == [t |-> "null"]
Bool(b) == [t |-> "bool", v |-> b]
Num(n) == [t |-> "number", v |-> n]
Big(n) == [t |-> "bigint", v |-> n]
Str(s) == [t |-> "string", v |-> s]
Obj(props) == [t |-> "object", v |-> props]
Ref(id) == [t |-> "ref", id |-> id]
Prop(k, v) == [k |-> k, v |-> v]

\* ToBoolean: what `if (x)` and `!x` test.
Truthy(x) ==
    CASE x.t = "undefined" -> FALSE
      [] x.t = "null" -> FALSE
      [] x.t = "bool" -> x.v
      [] x.t = "number" -> x.v # 0
      [] x.t = "bigint" -> x.v # <<"0">>
      [] x.t = "string" -> x.v # <<>>
      [] OTHER -> TRUE

\* Property read x[key] on a defined value: the property's value, undefined
\* when the value has no such property (a string or a number has none of the
\* names read by the client).
GetProp(x, key) ==
    IF x.t = "object" /\ \E i \in 1..Len(x.v) : x.v[i].k = key
    THEN x.v[CHOOSE i \in 1..Len(x.v) : x.v[i].k = key].v
    ELSE Undefined

\* Whether a property read on x throws a TypeError (x is undefined or null).
ReadThrows(x) ==
    x.t \in {"undefined", "null"}

RECURSIVE Deref(_, _)
\* The value with every reference replaced by the object it points to.
Deref(x, h) ==
    CASE x.t = "ref" -> Deref(h[x.id], h)
      [] x.t = "object" ->
            Obj([i \in 1..Len(x.v) |-> Prop(x.v[i].k, Deref(x.v[i].v, h))])
      [] OTHER -> x

Quoted(s) ==
    <<"\"">> \o s \o <<"\"">>

RECURSIVE StringifyValue(_)
RECURSIVE StringifyProps(_, _)
\* The members of an object, from the i-th on; a property whose value is
\* undefined is left out.
StringifyProps(props, first) ==
    IF props = <<>> THEN <<>>
    ELSE IF Head(props).v.t = "undefined" THEN StringifyProps(Tail(props), first)
    ELSE (IF first THEN <<>> ELSE <<",">>)
         \o Quoted(Head(props).k) \o <<":">> \o StringifyValue(Head(props).v)
         \o StringifyProps(Tail(props), FALSE)

\* JSONBigInt.stringify of a value without references: a bigint is written
\* as a bare integer literal.
StringifyValue(x) ==
    CASE x.t = "null" -> <<"n","u","l","l">>
      [] x.t = "bool" -> IF x.v THEN <<"t","r","u","e">> ELSE <<"f","a","l","s","e">>
      [] x.t = "number" -> IntToString(x.v)
      [] x.t = "bigint" -> x.v
      [] x.t = "string" -> Quoted(x.v)
      [] x.t = "object" -> <<"{">> \o StringifyProps(x.v, TRUE) \o <<"}">>

\* stringifyBigJSON(data), data read through the heap at the time of the call.
stringifyBigJSON(data, h) ==
    StringifyValue(Deref(data, h))

(***************************************************************************)
(* JSONBigInt.parse, for texts without white space, escapes, arrays or     *)
(* fractions: objects, strings, integers, true, false and null.  With      *)
(* alwaysParseAsBig every number is read as a bigint.                      *)
(***************************************************************************)
ParseFail == [ok |-> FALSE]
ParseOk(val, next) == [ok |-> TRUE, val |-> val, next |-> next]

IsDigit(ch) ==
    \E i \in 1..10 : Digits[i] = ch

\* The first index >= i of s that holds no digit.
DigitsEnd(s, i) ==
    MinOf({j \in i..(Len(s) + 1) : j = Len(s) + 1 \/ ~IsDigit(s[j])})

RECURSIVE StripZeros(_)
\* The digits without their leading zeros, one digit at least.
StripZeros(ds) ==
    IF Len(ds) > 1 /\ Head(ds) = "0" THEN StripZeros(Tail(ds)) ELSE ds

\* The integer read as a double: sixteen digits are kept.
BigIntText_AsDouble(neg, ds) ==
    LET m == StripZeros(ds)
        kept == [j \in 1..Len(m) |-> IF j <= 16 THEN m[j] ELSE "0"]
    IN  IF neg /\ m # <<"0">> THEN <<"-">> \o kept ELSE kept

\* BigInt(text).toString(): the canonical decimal text of an integer literal.
BigIntText(neg, ds) ==
    LET m == StripZeros(ds)
    IN  IF neg /\ m # <<"0">> THEN <<"-">> \o m ELSE m

ParseNumber(s, i) ==
    LET neg == s[i] = "-"
        from == IF neg THEN i + 1 ELSE i
        to == DigitsEnd(s, from)
    IN  IF to = from THEN ParseFail
        ELSE ParseOk(Big(BigIntText(neg, SubSeq(s, from, to - 1))), to)

ParseString(s, i) ==
    LET ends == {j \in (i + 1)..Len(s) : s[j] = "\""}
    IN  IF s[i] # "\"" \/ ends = {} THEN ParseFail
        ELSE ParseOk(Str(SubSeq(s, i + 1, MinOf(ends) - 1)), MinOf(ends) + 1)

ParseLiteral(s, i, word, val) ==
    IF i + Len(word) - 1 <= Len(s) /\ SubSeq(s, i, i + Len(word) - 1) = word
    THEN ParseOk(val, i + Len(word))
    ELSE ParseFail

RECURSIVE ParseValue(_, _)
RECURSIVE ParseMembers(_, _, _)
\* The members of an object from index i on, acc being the properties read.
ParseMembers(s, i, acc) ==
    LET key == IF i <= Len(s) THEN ParseString(s, i) ELSE ParseFail
    IN  IF ~key.ok \/ key.next > Len(s) \/ s[key.next] # ":" THEN ParseFail
        ELSE LET val == ParseValue(s, key.next + 1)
             IN  IF ~val.ok \/ val.next > Len(s) THEN ParseFail
                 ELSE LET props == Append(acc, Prop(key.val.v, val.val))
                      IN  IF s[val.next] = "}" THEN ParseOk(Obj(props), val.next + 1)
                          ELSE IF s[val.next] = "," THEN ParseMembers(s, val.next + 1, props)
                          ELSE ParseFail

ParseValue(s, i) ==
    IF i > Len(s) THEN ParseFail
    ELSE CASE s[i] = "{" ->
                IF i + 1 <= Len(s) /\ s[i + 1] = "}" THEN ParseOk(Obj(<<>>), i + 2)
                ELSE ParseMembers(s, i + 1, <<>>)
           [] s[i] = "\"" -> ParseString(s, i)
           [] s[i] = "-" \/ IsDigit(s[i]) -> ParseNumber(s, i)
           [] s[i] = "t" -> ParseLiteral(s, i, <<"t","r","u","e">>, Bool(TRUE))
           [] s[i] = "f" -> ParseLiteral(s, i, <<"f","a","l","s","e">>, Bool(FALSE))
           [] s[i] = "n" -> ParseLiteral(s, i, <<"n","u","l","l">>, Null)
           [] OTHER -> ParseFail

\* parseBigJSON(data): the parsed value, and the text itself when it is not
\* JSON (the error is logged and swallowed).
parseBigJSON(data) ==
    LET r == ParseValue(data, 1)
    IN  IF r.ok /\ r.next = Len(data) + 1 THEN r.val ELSE Str(data)

(***************************************************************************)
(* Constants of the program.                                               *)
(***************************************************************************)
RENEGADE_HEADER_PREFIX ==
    <<"x","-","r","e","n","e","g","a","d","e">>

RENEGADE_AUTH_HEADER ==
    <<"x","-","r","e","n","e","g","a","d","e","-","a","u","t","h">>

RENEGADE_AUTH_EXPIRATION_HEADER ==
    <<"x","-","r","e","n","e","g","a","d","e","-","a","u","t","h","-","e","x","p","i","r","a","t","i","o","n">>

RENEGADE_API_KEY_HEADER ==
    <<"x","-","r","e","n","e","g","a","d","e","-","a","p","i","-","k","e","y">>

RENEGADE_SDK_VERSION_HEADER ==
    <<"x","-","r","e","n","e","g","a","d","e","-","s","d","k","-","v","e","r","s","i","o","n">>

REQUEST_EXTERNAL_QUOTE_ROUTE ==
    <<"/","v","0","/","m","a","t","c","h","i","n","g","-","e","n","g","i","n","e","/","q","u","o","t","e">>

ASSEMBLE_EXTERNAL_MATCH_ROUTE ==
    <<"/","v","0","/","m","a","t","c","h","i","n","g","-","e","n","g","i","n","e","/","a","s","s","e","m","b","l","e","-","e","x","t","e","r","n","a","l","-","m","a","t","c","h">>

DISABLE_GAS_SPONSORSHIP_QUERY_PARAM ==
    <<"d","i","s","a","b","l","e","_","g","a","s","_","s","p","o","n","s","o","r","s","h","i","p">>

GAS_REFUND_ADDRESS_QUERY_PARAM ==
    <<"r","e","f","u","n","d","_","a","d","d","r","e","s","s">>

REFUND_NATIVE_ETH_QUERY_PARAM ==
    <<"r","e","f","u","n","d","_","n","a","t","i","v","e","_","e","t","h">>

REQUEST_SIGNATURE_DURATION_MS == 10000

\* getSdkVersion(): "typescript-v" and the package version.
getSdkVersion ==
    <<"t","y","p","e","s","c","r","i","p","t","-","v","0",".","1",".","8">>

\* The default headers of the axios instance the constructor creates.
InstanceDefaultHeaders ==
    <<Prop(<<"C","o","n","t","e","n","t","-","T","y","p","e">>, <<"a","p","p","l","i","c","a","t","i","o","n","/","j","s","o","n">>)>>

\* The fallback messages of the two catch blocks.
FailedToRequestQuote ==
    <<"F","a","i","l","e","d"," ","t","o"," ","r","e","q","u","e","s","t"," ","q","u","o","t","e">>

FailedToAssembleQuote ==
    <<"F","a","i","l","e","d"," ","t","o"," ","a","s","s","e","m","b","l","e"," ","q","u","o","t","e">>

\* The message of the TypeError a property read on undefined raises.
TypeErrorMessage ==
    <<"C","a","n","n","o","t"," ","r","e","a","d"," ","p","r","o","p","e","r","t","i","e","s"," ","o","f"," ","u","n","d","e","f","i","n","e","d">>

\* Property names of the API payloads.
k_external_order == <<"e","x","t","e","r","n","a","l","_","o","r","d","e","r">>
k_signed_quote == <<"s","i","g","n","e","d","_","q","u","o","t","e">>
k_quote == <<"q","u","o","t","e">>
k_signature == <<"s","i","g","n","a","t","u","r","e">>
k_gas_sponsorship_info == <<"g","a","s","_","s","p","o","n","s","o","r","s","h","i","p","_","i","n","f","o">>
k_do_gas_estimation == <<"d","o","_","g","a","s","_","e","s","t","i","m","a","t","i","o","n">>
k_allow_shared == <<"a","l","l","o","w","_","s","h","a","r","e","d">>
k_receiver_address == <<"r","e","c","e","i","v","e","r","_","a","d","d","r","e","s","s">>
k_updated_order == <<"u","p","d","a","t","e","d","_","o","r","d","e","r">>
k_side == <<"s","i","d","e">>
k_quote_amount == <<"q","u","o","t","e","_","a","m","o","u","n","t">>
k_timestamp == <<"t","i","m","e","s","t","a","m","p">>
k_match_bundle == <<"m","a","t","c","h","_","b","u","n","d","l","e">>

(***************************************************************************)
(* Headers.  A headers object is the sequence of its own properties        *)
(* [k: name, v: value] in insertion order (the order Object.entries gives).*)
(* Property names are case-sensitive: "X-Renegade-Auth" and                 *)
(* "x-renegade-auth" are two properties.                                   *)
(***************************************************************************)
HasKey(hs, k) ==
    \E i \in 1..Len(hs) : hs[i].k = k

\* headers[k] = v: the property is replaced where it stands, or added last.
SetHeader(hs, k, v) ==
    IF HasKey(hs, k)
    THEN [i \in 1..Len(hs) |-> IF hs[i].k = k THEN Prop(k, v) ELSE hs[i]]
    ELSE Append(hs, Prop(k, v))

RECURSIVE MergeHeaders(_, _)
\* The headers of a request: the instance defaults, then the headers the
\* caller passes, each set in turn.
MergeHeaders(base, extra) ==
    IF extra = <<>> THEN base
    ELSE MergeHeaders(SetHeader(base, Head(extra).k, Head(extra).v), Tail(extra))

\* The first filter left out: every header is kept.
HasRenegadePrefix_Unfiltered(e) ==
    e = e

\* The first filter: the lower-cased name starts with the prefix.
HasRenegadePrefix(e) ==
    startsWith(toLowerCase(e.k), RENEGADE_HEADER_PREFIX)

\* The second filter without toLowerCase on the name.
IsNotAuthHeader_CaseSensitive(e) ==
    e.k # RENEGADE_AUTH_HEADER

\* The second filter: the lower-cased name is not the signature header's.
IsNotAuthHeader(e) ==
    toLowerCase(e.k) # toLowerCase(RENEGADE_AUTH_HEADER)

\* The comparator given to sort: the names, by localeCompare.
CompareEntries(a, b) ==
    localeCompare(a.k, b.k)

RECURSIVE InsertSorted(_, _)
\* e put into the sorted sequence after every entry that does not sort
\* after it.
InsertSorted(sorted, e) ==
    IF sorted = <<>> THEN <<e>>
    ELSE IF CompareEntries(Head(sorted), e) <= 0
         THEN <<Head(sorted)>> \o InsertSorted(Tail(sorted), e)
         ELSE <<e>> \o sorted

\* The entries left in the order of the headers object: no sort.
SortEntries_Unsorted(es) ==
    es

RECURSIVE SortEntries(_)
\* Array.prototype.sort with CompareEntries: a stable sort.
SortEntries(es) ==
    IF es = <<>> THEN <<>>
    ELSE InsertSorted(SortEntries(SubSeq(es, 1, Len(es) - 1)), es[Len(es)])

\* The headers that are signed, in the order they are fed to the MAC.
SignedHeaders(hs) ==
    SortEntries(SelectSeq(SelectSeq(hs, HasRenegadePrefix), IsNotAuthHeader))

RECURSIVE HeaderUpdates(_)
\* The mac.update calls of the loop over the signed headers: the name, then
\* the value, of each.
HeaderUpdates(es) ==
    IF es = <<>> THEN <<>>
    ELSE <<Head(es).k, Head(es).v>> \o HeaderUpdates(Tail(es))

\* The body that is signed: '' for a falsy config.data, the data itself when
\* it is a string, its stringifyBigJSON text otherwise.
BodyToSign(data, h) ==
    IF Truthy(data)
    THEN IF data.t = "string" THEN data.v ELSE stringifyBigJSON(data, h)
    ELSE <<>>

\* The updates when the path fed is empty (config.url not read).
MacUpdates_EmptyPath(url, hs, data, h) ==
    <<<<>>>> \o HeaderUpdates(SignedHeaders(hs)) \o <<BodyToSign(data, h)>>

\* Every mac.update call of one signature, in order: the path, the signed
\* headers, the body.
MacUpdates(url, hs, data, h) ==
    <<url>> \o HeaderUpdates(SignedHeaders(hs)) \o <<BodyToSign(data, h)>>

RECURSIVE Flatten(_)
\* The bytes a sequence of updates feeds to the MAC.
Flatten(chunks) ==
    IF chunks = <<>> THEN <<>> ELSE Head(chunks) \o Flatten(Tail(chunks))

\* HMAC-SHA256, taken as an injective function of the key and of the bytes
\* fed: the digest is the pair of them.
HmacDigest(key, chunks) ==
    [key |-> key, msg |-> Flatten(chunks)]

\* encodeBase64(digest): the text of the signature header, kept as one
\* symbol that stands for the unpadded base64 text of the digest.
encodeBase64(digest) ==
    <<digest>>

\* The expiration without the signature duration: the clock reading itself.
ExpiryText_NoWindow(now) ==
    IntToString(now)

\* The expiration header's value: (now + the signature duration).toString().
ExpiryText(now) ==
    IntToString(now + REQUEST_SIGNATURE_DURATION_MS)

\* transformRequest: an object is written with stringifyBigJSON, anything
\* else is passed on as it is.
transformRequest(data, h) ==
    IF Truthy(data) /\ data.t \in {"object", "ref"}
    THEN Str(stringifyBigJSON(data, h))
    ELSE data

\* transformResponse: a string is read with parseBigJSON.
transformResponse(data) ==
    IF data.t = "string" THEN parseBigJSON(data.v) ELSE data

\* The bytes the adapter writes as the request body: a string's text, and
\* nothing for a falsy value.
BodyBytes(data) ==
    IF data.t = "string" THEN data.v ELSE <<>>

(***************************************************************************)
(* The option classes and their request paths.                             *)
(***************************************************************************)
\* The characters URLSearchParams writes as they are.
FormSafe ==
    {Digits[i] : i \in 1..10} \cup DOMAIN UpperToLower
        \cup {UpperToLower[u] : u \in DOMAIN UpperToLower} \cup {"*", "-", ".", "_"}

\* The percent escapes of the other characters of the model.
PercentCode ==
    ("\"" :> <<"%","2","2">>) @@ ("&" :> <<"%","2","6">>) @@ ("," :> <<"%","2","C">>) @@
    ("/" :> <<"%","2","F">>) @@ (":" :> <<"%","3","A">>) @@ ("=" :> <<"%","3","D">>) @@
    ("?" :> <<"%","3","F">>) @@ ("{" :> <<"%","7","B">>) @@ ("}" :> <<"%","7","D">>)

RECURSIVE FormEncode(_)
\* The application/x-www-form-urlencoded text of a name or a value.
FormEncode(s) ==
    IF s = <<>> THEN <<>>
    ELSE (IF Head(s) \in FormSafe THEN <<Head(s)>>
          ELSE IF Head(s) = " " THEN <<"+">>
          ELSE PercentCode[Head(s)]) \o FormEncode(Tail(s))

RECURSIVE ParamsToString(_)
\* URLSearchParams.toString(): name=value pairs joined by "&".
ParamsToString(params) ==
    IF params = <<>> THEN <<>>
    ELSE FormEncode(Head(params).k) \o <<"=">> \o FormEncode(Head(params).v)
         \o (IF Len(params) > 1 THEN <<"&">> ELSE <<>>)
         \o ParamsToString(Tail(params))

\* Boolean.prototype.toString.
BoolToString(b) ==
    IF b THEN <<"t","r","u","e">> ELSE <<"f","a","l","s","e">>

\* RequestQuoteOptions.new().
RequestQuoteOptionsNew ==
    [disableGasSponsorship |-> FALSE, gasRefundAddress |-> Undefined,
     refundNativeEth |-> FALSE]

\* buildRequestPath that writes refund_native_eth whatever its value.
QuoteBuildRequestPath_NativeEthAlways(o) ==
    LET p1 == <<Prop(DISABLE_GAS_SPONSORSHIP_QUERY_PARAM, BoolToString(o.disableGasSponsorship))>>
        p2 == IF Truthy(o.gasRefundAddress)
              THEN Append(p1, Prop(GAS_REFUND_ADDRESS_QUERY_PARAM, o.gasRefundAddress.v))
              ELSE p1
        p3 == Append(p2, Prop(REFUND_NATIVE_ETH_QUERY_PARAM, BoolToString(o.refundNativeEth)))
    IN  REQUEST_EXTERNAL_QUOTE_ROUTE \o <<"?">> \o ParamsToString(p3)

\* RequestQuoteOptions.buildRequestPath().
QuoteBuildRequestPath(o) ==
    LET p1 == <<Prop(DISABLE_GAS_SPONSORSHIP_QUERY_PARAM, BoolToString(o.disableGasSponsorship))>>
        p2 == IF Truthy(o.gasRefundAddress)
              THEN Append(p1, Prop(GAS_REFUND_ADDRESS_QUERY_PARAM, o.gasRefundAddress.v))
              ELSE p1
        p3 == IF o.refundNativeEth
              THEN Append(p2, Prop(REFUND_NATIVE_ETH_QUERY_PARAM, BoolToString(o.refundNativeEth)))
              ELSE p2
    IN  REQUEST_EXTERNAL_QUOTE_ROUTE \o <<"?">> \o ParamsToString(p3)

\* AssembleExternalMatchOptions.new().
AssembleExternalMatchOptionsNew ==
    [doGasEstimation |-> FALSE, allowShared |-> FALSE, receiverAddress |-> Undefined,
     updatedOrder |-> Undefined, requestGasSponsorship |-> FALSE,
     gasRefundAddress |-> Undefined]

\* buildRequestPath without the early return of the bare path.
AssembleBuildRequestPath_AlwaysQuery(o) ==
    LET p1 == IF o.requestGasSponsorship
              THEN <<Prop(DISABLE_GAS_SPONSORSHIP_QUERY_PARAM,
                          BoolToString(~o.requestGasSponsorship))>>
              ELSE <<>>
        p2 == IF Truthy(o.gasRefundAddress)
              THEN Append(p1, Prop(GAS_REFUND_ADDRESS_QUERY_PARAM, o.gasRefundAddress.v))
              ELSE p1
    IN  ASSEMBLE_EXTERNAL_MATCH_ROUTE \o <<"?">> \o ParamsToString(p2)

\* AssembleExternalMatchOptions.buildRequestPath().
AssembleBuildRequestPath(o) ==
    IF ~o.requestGasSponsorship /\ ~Truthy(o.gasRefundAddress)
    THEN ASSEMBLE_EXTERNAL_MATCH_ROUTE
    ELSE LET p1 == IF o.requestGasSponsorship
                   THEN <<Prop(DISABLE_GAS_SPONSORSHIP_QUERY_PARAM,
                               BoolToString(~o.requestGasSponsorship))>>
                   ELSE <<>>
             p2 == IF Truthy(o.gasRefundAddress)
                   THEN Append(p1, Prop(GAS_REFUND_ADDRESS_QUERY_PARAM, o.gasRefundAddress.v))
                   ELSE p1
         IN  ASSEMBLE_EXTERNAL_MATCH_ROUTE \o <<"?">> \o ParamsToString(p2)

(***************************************************************************)
(* ExternalMatchClient: what a call builds before it awaits the transport, *)
(* and what it does with the transport's answer.                           *)
(***************************************************************************)
\* getHeaders() without the SDK version.
getHeaders_NoSdkVersion(key) ==
    <<Prop(RENEGADE_API_KEY_HEADER, key)>>

\* getHeaders().
getHeaders(key) ==
    <<Prop(RENEGADE_API_KEY_HEADER, key), Prop(RENEGADE_SDK_VERSION_HEADER, getSdkVersion)>>

\* The ExternalQuoteRequest of requestQuoteWithOptions: it holds the caller's
\* order object itself.
QuoteRequest(order) ==
    Obj(<<Prop(k_external_order, order)>>)

\* The request that passes the caller's signed quote on as it is.
AssembleRequest_WholeQuote(quote, o) ==
    Obj(<<Prop(k_do_gas_estimation, Bool(o.doGasEstimation)),
          Prop(k_allow_shared, Bool(o.allowShared)),
          Prop(k_receiver_address, o.receiverAddress),
          Prop(k_signed_quote, quote),
          Prop(k_updated_order, o.updatedOrder)>>)

\* The AssembleExternalMatchRequest of assembleQuoteWithOptions: a new
\* signed_quote of the quote's quote and signature, and the option fields.
AssembleRequest(quote, o) ==
    LET signedQuote == Obj(<<Prop(k_quote, GetProp(quote, k_quote)),
                             Prop(k_signature, GetProp(quote, k_signature))>>)
    IN  Obj(<<Prop(k_do_gas_estimation, Bool(o.doGasEstimation)),
              Prop(k_allow_shared, Bool(o.allowShared)),
              Prop(k_receiver_address, o.receiverAddress),
              Prop(k_signed_quote, signedQuote),
              Prop(k_updated_order, o.updatedOrder)>>)

ReturnNull == [kind |-> "null"]
ReturnValue(v) == [kind |-> "value", val |-> v]
Throw(name, message, statusCode) ==
    [kind |-> "error", name |-> name, message |-> message, statusCode |-> statusCode]

\* The catch block without its 204 case.
CatchBlock_No204(error, fallback) ==
    Throw("ExternalMatchClientError",
          IF error.message # <<>> THEN error.message ELSE fallback,
          error.status)

\* The catch block that does not pass the error's status on.
CatchBlock_NoStatus(error, fallback) ==
    IF error.status = Num(204) THEN ReturnNull
    ELSE Throw("ExternalMatchClientError",
               IF error.message # <<>> THEN error.message ELSE fallback,
               Undefined)

\* The catch block of both operations: null for an error whose status is 204,
\* an ExternalMatchClientError of the error's message (the fallback when it
\* has none) and status otherwise.
CatchBlock(error, fallback) ==
    IF error.status = Num(204) THEN ReturnNull
    ELSE Throw("ExternalMatchClientError",
               IF error.message # <<>> THEN error.message ELSE fallback,
               error.status)

\* requestQuoteWithOptions with the response read outside the try block: the
\* TypeError reaches the caller as it is.
QuoteAfterAwait_ReadOutsideTry(reply) ==
    IF reply.kind = "error" THEN CatchBlock(reply, FailedToRequestQuote)
    ELSE IF reply.status = 204 \/ ~Truthy(reply.data) THEN ReturnNull
    ELSE LET sq == GetProp(reply.data, k_signed_quote)
         IN  IF ReadThrows(sq)
             THEN Throw("TypeError", TypeErrorMessage, Undefined)
             ELSE ReturnValue(Obj(<<Prop(k_quote, GetProp(sq, k_quote)),
                                    Prop(k_signature, GetProp(sq, k_signature)),
                                    Prop(k_gas_sponsorship_info,
                                         GetProp(reply.data, k_gas_sponsorship_info))>>))

\* requestQuoteWithOptions reading the gas sponsorship info inside
\* signed_quote instead of the envelope's.
QuoteAfterAwait_GasFromSignedQuote(reply) ==
    IF reply.kind = "error" THEN CatchBlock(reply, FailedToRequestQuote)
    ELSE IF reply.status = 204 \/ ~Truthy(reply.data) THEN ReturnNull
    ELSE LET sq == GetProp(reply.data, k_signed_quote)
         IN  IF ReadThrows(sq)
             THEN CatchBlock([message |-> TypeErrorMessage, status |-> Undefined],
                             FailedToRequestQuote)
             ELSE ReturnValue(Obj(<<Prop(k_quote, GetProp(sq, k_quote)),
                                    Prop(k_signature, GetProp(sq, k_signature)),
                                    Prop(k_gas_sponsorship_info,
                                         GetProp(sq, k_gas_sponsorship_info))>>))

\* requestQuoteWithOptions from the await on: reply is what the transport's
\* promise settled with.  Reading signed_quote.quote of a body without
\* signed_quote raises a TypeError inside the try block.
QuoteAfterAwait(reply) ==
    IF reply.kind = "error" THEN CatchBlock(reply, FailedToRequestQuote)
    ELSE IF reply.status = 204 \/ ~Truthy(reply.data) THEN ReturnNull
    ELSE LET sq == GetProp(reply.data, k_signed_quote)
         IN  IF ReadThrows(sq)
             THEN CatchBlock([message |-> TypeErrorMessage, status |-> Undefined],
                             FailedToRequestQuote)
             ELSE ReturnValue(Obj(<<Prop(k_quote, GetProp(sq, k_quote)),
                                    Prop(k_signature, GetProp(sq, k_signature)),
                                    Prop(k_gas_sponsorship_info,
                                         GetProp(reply.data, k_gas_sponsorship_info))>>))

\* assembleQuoteWithOptions without the test of an empty body.
AssembleAfterAwait_NoEmptyTest(reply) ==
    IF reply.kind = "error" THEN CatchBlock(reply, FailedToAssembleQuote)
    ELSE IF reply.status = 204 THEN ReturnNull
    ELSE ReturnValue(reply.data)

\* assembleQuoteWithOptions from the await on.
AssembleAfterAwait(reply) ==
    IF reply.kind = "error" THEN CatchBlock(reply, FailedToAssembleQuote)
    ELSE IF reply.status = 204 \/ ~Truthy(reply.data) THEN ReturnNull
    ELSE ReturnValue(reply.data)

\* RelayerHttpClient.get and post hand the transport's promise to the caller.
HttpAfterAwait(reply) ==
    IF reply.kind = "error" THEN Throw("TransportError", reply.message, reply.status)
    ELSE ReturnValue(reply.data)

(***************************************************************************)
(* The inputs of the model.                                                *)
(***************************************************************************)
Calls == 1..MaxCalls
HttpCalls == 1..MaxHttpCalls
LifeCalls == 1..MaxLifeCalls

\* The decoded authentication keys a client may be constructed with.
AuthKeys == {<<1, 2>>, <<3>>}

ApiKeys == {<<"k">>}

\* The base URLs a client may be constructed with.
BaseUrls == {<<"u">>}

\* The objects the caller owns and passes by reference: an ExternalOrder and
\* the ApiExternalQuote of a signed quote.
ObjIds == {"order", "quote"}

InitialObject(id) ==
    IF id = "order"
    THEN Obj(<<Prop(k_side, Str(<<"B","u","y">>)), Prop(k_quote_amount, Big(<<"2","0">>))>>)
    ELSE Obj(<<Prop(k_timestamp, Big(<<"7">>))>>)

\* What the caller's assignment to a field of the object leaves.
MutatedObject(id) ==
    IF id = "order"
    THEN Obj(<<Prop(k_side, Str(<<"B","u","y">>)), Prop(k_quote_amount, Big(<<"2","1">>))>>)
    ELSE Obj(<<Prop(k_timestamp, Big(<<"8">>))>>)

InitialHeap == [id \in ObjIds |-> InitialObject(id)]

\* The SignedExternalQuote values given to assembleQuote: without and with
\* gas sponsorship info.
SignedQuotes ==
    {Obj(<<Prop(k_quote, Ref("quote")), Prop(k_signature, Str(<<"s">>))>>),
     Obj(<<Prop(k_quote, Ref("quote")), Prop(k_signature, Str(<<"s">>)),
           Prop(k_gas_sponsorship_info, Obj(<<Prop(k_signature, Str(<<"g">>))>>))>>)}

QuoteOptionsSet ==
    {RequestQuoteOptionsNew,
     [disableGasSponsorship |-> TRUE, gasRefundAddress |-> Str(<<"0","x","a">>),
      refundNativeEth |-> TRUE]}

AssembleOptionsSet ==
    {AssembleExternalMatchOptionsNew,
     [doGasEstimation |-> TRUE, allowShared |-> FALSE,
      receiverAddress |-> Str(<<"0","x","b">>), updatedOrder |-> Ref("order"),
      requestGasSponsorship |-> TRUE, gasRefundAddress |-> Undefined]}

\* The paths, headers and bodies given to RelayerHttpClient.get and post.
HttpPaths == {<<"/","p">>, <<"/","q">>}

HttpHeaderSets ==
    {<<>>,
     <<Prop(RENEGADE_API_KEY_HEADER, <<"k">>), Prop(RENEGADE_SDK_VERSION_HEADER, getSdkVersion)>>,
     <<Prop(RENEGADE_SDK_VERSION_HEADER, getSdkVersion), Prop(RENEGADE_API_KEY_HEADER, <<"k">>)>>,
     <<Prop(<<"X","-","R","e","n","e","g","a","d","e","-","A","u","t","h","-","E","x","p","i","r","a","t","i","o","n">>, <<"0">>)>>,
     <<Prop(<<"X","-","R","e","n","e","g","a","d","e","-","A","u","t","h">>, <<"s">>)>>,
     <<Prop(RENEGADE_AUTH_HEADER, <<"s">>), Prop(<<"A","c","c","e","p","t">>, <<"a">>)>>,
     <<Prop(<<"x","-","r","e","n","e","g","a","d","e","-","z">>, <<"a","b">>)>>,
     <<Prop(<<"x","-","r","e","n","e","g","a","d","e","-","z">>, <<"a">>)>>,
     <<Prop(<<"x","-","r","e","n","e","g","a","d","e","-","z","a">>, <<"b">>)>>}

HttpBodies ==
    {Undefined, Str(<<"c">>), Str(<<"b","c">>), Ref("order")}

\* The response bodies the server may send: nothing, a quote envelope, text
\* that is not JSON, and a JSON object without signed_quote.
QuoteEnvelope ==
    Obj(<<Prop(k_signed_quote,
               Obj(<<Prop(k_quote, Obj(<<Prop(k_quote_amount, Big(<<"2","0">>))>>)),
                     Prop(k_signature, Str(<<"s">>))>>))>>)

ResponseTexts ==
    {<<>>, StringifyValue(QuoteEnvelope), <<"o","o","p","s">>, <<"{","}">>}

\* What the transport's promise may resolve with: a 2xx status and a body.
Resolutions ==
    {[status |-> 200, raw |-> t] : t \in ResponseTexts} \cup {[status |-> 204, raw |-> <<>>]}

\* What the transport's promise may reject with: an error object, its status
\* (undefined when there is no HTTP status) and its message.
Rejections ==
    {[status |-> Num(500), message |-> <<"E">>],
     [status |-> Undefined, message |-> <<>>],
     [status |-> Num(204), message |-> <<"E">>]}

(***************************************************************************)
(* The state.                                                              *)
(***************************************************************************)
VARIABLES
    authKey,        \* RelayerHttpClient.authKey
    apiKey,         \* ExternalMatchClient.apiKey
    baseURL,        \* the transport instance's baseURL
    clock,          \* Date.now()
    heap,           \* the objects the caller owns
    mutations,      \* how many times the caller has changed one of them
    commonHeaders,  \* axios.defaults.headers.common, one object for all
    pc,             \* per call: idle, queued, signed, sent, settled, done
    op,             \* per call: the operation called
    config,         \* per call: the request config [url, headers, data]
    updates,        \* per call: the mac.update calls of its signature
    wire,           \* per call: the request as transmitted
    reply,          \* per call: what the transport's promise settled with
    result,         \* per call: what the call returned or threw
    phases,         \* per call: the phases the operation has gone through
    posts,          \* per call: how many requests it gave to the transport
    input,          \* a function called on its own: its name and argument
    output          \* what that function returned or threw

vars ==
    <<authKey, apiKey, baseURL, clock, heap, mutations, commonHeaders, pc, op, config,
      updates, wire, reply, result, phases, posts, input, output>>

None == [kind |-> "none"]

OwnHeaders(hs) == [ref |-> "own", h |-> hs]

\* The headers object a config holds.
HeadersOf(cfg, common) ==
    IF cfg.headers.ref = "own" THEN cfg.headers.h ELSE common

\* The client after construction, no call made yet.
Constructed ==
    /\ authKey \in AuthKeys
    /\ apiKey \in ApiKeys
    /\ baseURL \in BaseUrls
    /\ clock = 0
    /\ heap = InitialHeap
    /\ mutations = 0
    /\ commonHeaders = <<>>
    /\ pc = [c \in Calls |-> "idle"]
    /\ op = [c \in Calls |-> "none"]
    /\ config = [c \in Calls |-> None]
    /\ updates = [c \in Calls |-> <<>>]
    /\ wire = [c \in Calls |-> None]
    /\ reply = [c \in Calls |-> None]
    /\ result = [c \in Calls |-> None]
    /\ phases = [c \in Calls |-> <<>>]
    /\ posts = [c \in Calls |-> 0]

Init ==
    /\ Constructed
    /\ input = None
    /\ output = None

(***************************************************************************)
(* RelayerHttpClient.                                                      *)
(***************************************************************************)
\* client.get / client.post: the transport makes the request config of the
\* url, the instance's default headers with the caller's over them, and the
\* data.  copied says whether the transport's merge of the config took a copy
\* of the data (as it does of plain objects) or kept the caller's object
\* itself (an object that is not plain, a member of an array).  The
\* interceptor and the rest run later, each in a step of its own.
Request(c, name, url, data, headers, copied) ==
    /\ pc[c] = "idle"
    /\ \A d \in Calls : d < c => pc[d] # "idle"
    /\ pc' = [pc EXCEPT ![c] = "queued"]
    /\ op' = [op EXCEPT ![c] = name]
    /\ config' = [config EXCEPT ![c] =
            [url |-> url,
             headers |-> OwnHeaders(MergeHeaders(InstanceDefaultHeaders, headers)),
             data |-> IF copied THEN Deref(data, heap) ELSE data]]
    /\ posts' = [posts EXCEPT ![c] = @ + 1]
    /\ UNCHANGED <<input, output, authKey, apiKey, baseURL, clock, heap, mutations, commonHeaders,
                   updates, wire, reply, result>>

\* RelayerHttpClient.get(path, headers).
get(c, path, headers) ==
    /\ Request(c, "get", path, Undefined, headers, TRUE)
    /\ UNCHANGED phases

\* RelayerHttpClient.post(path, data, headers), called by its owner.
post(c, path, data, headers, copied) ==
    /\ Request(c, "post", path, data, headers, copied)
    /\ UNCHANGED phases

\* The headers object the interceptor works on: the config's, or the shared
\* axios.defaults.headers.common when the config has none.
InterceptorHeaders(cfg, common) ==
    IF cfg.headers.ref = "own" THEN cfg.headers.h ELSE common

\* The headers as the interceptor signs them: with the expiration set.
HeadersToSign(hs, now) ==
    SetHeader(hs, RENEGADE_AUTH_EXPIRATION_HEADER, ExpiryText(now))

\* The signature made with a key that lost its last byte.
HeadersSigned_ShortenedKey(hs, now, key, ups) ==
    SetHeader(HeadersToSign(hs, now), RENEGADE_AUTH_HEADER,
              encodeBase64(HmacDigest(SubSeq(key, 1, Len(key) - 1), ups)))

\* The headers as the interceptor leaves them: with the signature set.
HeadersSigned(hs, now, key, ups) ==
    SetHeader(HeadersToSign(hs, now), RENEGADE_AUTH_HEADER,
              encodeBase64(HmacDigest(key, ups)))

\* addAuthInterceptor(config): the request interceptor.
addAuthInterceptor(c) ==
    /\ pc[c] = "queued"
    /\ LET cfg == config[c]
           hs == InterceptorHeaders(cfg, commonHeaders)
           ups == MacUpdates(cfg.url, HeadersToSign(hs, clock), cfg.data, heap)
           signed == HeadersSigned(hs, clock, authKey, ups)
       IN  /\ updates' = [updates EXCEPT ![c] = ups]
           /\ IF cfg.headers.ref = "own"
              THEN /\ config' = [config EXCEPT ![c].headers = OwnHeaders(signed)]
                   /\ UNCHANGED commonHeaders
              ELSE /\ config' = [config EXCEPT ![c].headers = [ref |-> "common"]]
                   /\ commonHeaders' = signed
    /\ pc' = [pc EXCEPT ![c] = "signed"]
    /\ UNCHANGED <<input, output, authKey, apiKey, baseURL, clock, heap, mutations, op, wire, reply,
                   result, phases, posts>>

\* The transport's dispatch: transformRequest writes the body, and the
\* request goes out with the config's url, headers and that body.
Dispatch(c) ==
    /\ pc[c] = "signed"
    /\ LET d == transformRequest(config[c].data, heap)
       IN  /\ config' = [config EXCEPT ![c].data = d]
           /\ wire' = [wire EXCEPT ![c] =
                  [baseURL |-> baseURL,
                   url |-> config[c].url,
                   headers |-> HeadersOf(config[c], commonHeaders),
                   body |-> BodyBytes(d)]]
    /\ pc' = [pc EXCEPT ![c] = "sent"]
    /\ UNCHANGED <<input, output, authKey, apiKey, baseURL, clock, heap, mutations, commonHeaders, op,
                   updates, reply, result, phases, posts>>

\* The server answers with a 2xx status: transformResponse reads the body
\* and the transport's promise resolves.
Resolve(c, r) ==
    /\ pc[c] = "sent"
    /\ reply' = [reply EXCEPT ![c] =
           [kind |-> "response", status |-> r.status,
            data |-> transformResponse(Str(r.raw))]]
    /\ pc' = [pc EXCEPT ![c] = "settled"]
    /\ UNCHANGED <<input, output, authKey, apiKey, baseURL, clock, heap, mutations, commonHeaders, op,
                   config, updates, wire, result, phases, posts>>

\* The request fails: the transport's promise rejects with an error object.
Reject(c, e) ==
    /\ pc[c] = "sent"
    /\ reply' = [reply EXCEPT ![c] =
           [kind |-> "error", status |-> e.status, message |-> e.message]]
    /\ pc' = [pc EXCEPT ![c] = "settled"]
    /\ UNCHANGED <<input, output, authKey, apiKey, baseURL, clock, heap, mutations, commonHeaders, op,
                   config, updates, wire, result, phases, posts>>

(***************************************************************************)
(* ExternalMatchClient.                                                    *)
(***************************************************************************)
\* requestQuoteWithOptions(order, options) up to its await: the request, the
\* path and the headers are built and given to httpClient.post.
requestQuoteWithOptions(c, order, options, copied) ==
    /\ Request(c, "quote", QuoteBuildRequestPath(options), QuoteRequest(order),
               getHeaders(apiKey), copied)
    /\ phases' = [phases EXCEPT ![c] = <<"building", "sending">>]

\* requestQuote(order).
requestQuote(c, order, copied) ==
    requestQuoteWithOptions(c, order, RequestQuoteOptionsNew, copied)

\* assembleQuoteWithOptions(quote, options) up to its await.
assembleQuoteWithOptions(c, quote, options, copied) ==
    /\ Request(c, "assemble", AssembleBuildRequestPath(options),
               AssembleRequest(quote, options), getHeaders(apiKey), copied)
    /\ phases' = [phases EXCEPT ![c] = <<"building", "sending">>]

\* assembleQuote(quote).
assembleQuote(c, quote, copied) ==
    assembleQuoteWithOptions(c, quote, AssembleExternalMatchOptionsNew, copied)

\* What the operation returns or throws once the transport's promise has
\* settled.
AfterAwait(name, r) ==
    CASE name = "quote" -> QuoteAfterAwait(r)
      [] name = "assemble" -> AssembleAfterAwait(r)
      [] OTHER -> HttpAfterAwait(r)

\* The phase an outcome ends the operation in.
Terminal(res) ==
    CASE res.kind = "value" -> "resolved"
      [] res.kind = "null" -> "empty"
      [] OTHER -> "failed"

\* The resumption of an operation that sends its request again when the
\* transport failed.
Settle_Retrying(c) ==
    /\ pc[c] = "settled"
    /\ IF reply[c].kind = "error" /\ posts[c] < 2
       THEN /\ pc' = [pc EXCEPT ![c] = "queued"]
            /\ posts' = [posts EXCEPT ![c] = @ + 1]
            /\ UNCHANGED <<result, phases>>
       ELSE /\ result' = [result EXCEPT ![c] = AfterAwait(op[c], reply[c])]
            /\ phases' = [phases EXCEPT ![c] = Append(@, Terminal(AfterAwait(op[c], reply[c])))]
            /\ pc' = [pc EXCEPT ![c] = "done"]
            /\ UNCHANGED posts
    /\ UNCHANGED <<input, output, authKey, apiKey, baseURL, clock, heap, mutations, commonHeaders, op,
                   config, updates, wire, reply>>

\* The awaiting operation resumes and returns or throws.
Settle(c) ==
    /\ pc[c] = "settled"
    /\ result' = [result EXCEPT ![c] = AfterAwait(op[c], reply[c])]
    /\ phases' = [phases EXCEPT ![c] =
           IF op[c] \in {"quote", "assemble"}
           THEN Append(@, Terminal(AfterAwait(op[c], reply[c])))
           ELSE @]
    /\ pc' = [pc EXCEPT ![c] = "done"]
    /\ UNCHANGED <<input, output, authKey, apiKey, baseURL, clock, heap, mutations, commonHeaders, op,
                   config, updates, wire, reply, posts>>

(***************************************************************************)
(* The environment.                                                        *)
(***************************************************************************)
\* The caller assigns to a field of an object it passes to its calls.  The
\* heap is read when a call is made, by the interceptor and by
\* transformRequest: a later assignment changes nothing a call sees.
Mutate(id) ==
    /\ mutations < MaxMutations
    /\ \E c \in Calls : pc[c] \in {"idle", "queued", "signed"}
    /\ heap[id] = InitialObject(id)
    /\ heap' = [heap EXCEPT ![id] = MutatedObject(id)]
    /\ mutations' = mutations + 1
    /\ UNCHANGED <<input, output, authKey, apiKey, baseURL, clock, commonHeaders, pc, op, config,
                   updates, wire, reply, result, phases, posts>>

\* Time passes.  The clock is read by the interceptor only: time that passes
\* once every call is signed changes nothing a call sees.
Tick ==
    /\ clock < MaxClock
    /\ \E c \in Calls : pc[c] \in {"idle", "queued"}
    /\ clock' = clock + 1
    /\ UNCHANGED <<input, output, authKey, apiKey, baseURL, heap, mutations, commonHeaders, pc, op,
                   config, updates, wire, reply, result, phases, posts>>

Transport(c) ==
    \/ addAuthInterceptor(c)
    \/ Dispatch(c)
    \/ \E r \in Resolutions : Resolve(c, r)
    \/ \E e \in Rejections : Reject(c, e)
    \/ Settle(c)

Environment ==
    \/ \E id \in ObjIds : Mutate(id)
    \/ Tick

\* The callers of an ExternalMatchClient, for the calls of the set C.
ClientNext(C) ==
    \/ \E c \in C, copied \in BOOLEAN :
          \/ requestQuote(c, Ref("order"), copied)
          \/ \E o \in QuoteOptionsSet : requestQuoteWithOptions(c, Ref("order"), o, copied)
          \/ \E q \in SignedQuotes : assembleQuote(c, q, copied)
          \/ \E q \in SignedQuotes, o \in AssembleOptionsSet :
                assembleQuoteWithOptions(c, q, o, copied)
    \/ \E c \in C : Transport(c)
    \/ Environment

Next == ClientNext(Calls)

Spec == Init /\ [][Next]_vars

\* One operation from its call to its end.  The event loop runs every
\* continuation that is ready (the interceptor, the dispatch, the resumption
\* of the awaiting operation), and the transport is taken to answer or fail.
NextLife == ClientNext(LifeCalls)

\* Call c leaves the position `from` for the position `to`.  Each transport
\* step is enabled exactly in its position and is the only step of the
\* program that makes its move, so a step of Advances is a step of it:
\*   queued -> signed is addAuthInterceptor(c), signed -> sent is Dispatch(c),
\*   sent -> settled is Resolve(c, r) or Reject(c, e), settled -> done is
\*   Settle(c).
Advances(c, from, to) ==
    /\ pc[c] = from
    /\ pc' = [pc EXCEPT ![c] = to]

FairSpec ==
    /\ Init
    /\ [][NextLife]_vars
    /\ \A c \in LifeCalls :
          /\ WF_pc(Advances(c, "queued", "signed"))
          /\ WF_pc(Advances(c, "signed", "sent"))
          /\ WF_pc(Advances(c, "sent", "settled"))
          /\ WF_pc(Advances(c, "settled", "done"))

\* The callers of a RelayerHttpClient.
NextHttp ==
    \/ \E c \in HttpCalls, p \in HttpPaths, hs \in HttpHeaderSets :
          \/ get(c, p, hs)
          \/ \E d \in HttpBodies, copied \in BOOLEAN : post(c, p, d, hs, copied)
    \/ \E c \in HttpCalls : Transport(c)
    \/ Environment

HttpSpec == Init /\ [][NextHttp]_vars

(***************************************************************************)
(* The construction of a client: the secret is decoded once.               *)
(***************************************************************************)
\* The base64 alphabet, in the order of the values 0..63.
Base64Alphabet ==
    <<"A","B","C","D","E","F","G","H","I","J","K","L","M","N","O","P","Q","R","S","T","U","V","W","X","Y","Z","a","b","c","d","e","f","g","h","i","j","k","l","m","n","o","p","q","r","s","t","u","v","w","x","y","z","0","1","2","3","4","5","6","7","8","9","+","/">>

IsBase64Char(ch) ==
    \E i \in 1..64 : Base64Alphabet[i] = ch

Base64Value(ch) ==
    (CHOOSE i \in 1..64 : Base64Alphabet[i] = ch) - 1

RECURSIVE Sextets(_)
\* The values Buffer.from(text, 'base64') reads: a character outside the
\* alphabet is passed over, and the first "=" ends the reading.
Sextets(s) ==
    IF s = <<>> \/ Head(s) = "=" THEN <<>>
    ELSE IF IsBase64Char(Head(s)) THEN <<Base64Value(Head(s))>> \o Sextets(Tail(s))
    ELSE Sextets(Tail(s))

RECURSIVE SextetsToBytes(_)
\* Four values give three bytes, three give two, two give one, one gives none.
SextetsToBytes(v) ==
    IF Len(v) < 2 THEN <<>>
    ELSE LET b1 == v[1] * 4 + (v[2] \div 16)
         IN  IF Len(v) = 2 THEN <<b1>>
             ELSE LET b2 == (v[2] % 16) * 16 + (v[3] \div 4)
                  IN  IF Len(v) = 3 THEN <<b1, b2>>
                      ELSE <<b1, b2, (v[3] % 4) * 64 + v[4]>>
                               \o SextetsToBytes(SubSeq(v, 5, Len(v)))

\* decodeBase64(base64): Buffer.from(base64, 'base64').  It raises for no
\* text.
decodeBase64(base64) ==
    SextetsToBytes(Sextets(base64))

\* The base64 character of a value of 0..63.
Base64Char(v) ==
    Base64Alphabet[v + 1]

RECURSIVE toBase64(_)
\* Buffer.prototype.toString('base64'): three bytes give four characters;
\* one or two bytes left give two or three characters and "=" up to four.
toBase64(b) ==
    IF b = <<>> THEN <<>>
    ELSE IF Len(b) = 1
         THEN <<Base64Char(b[1] \div 4), Base64Char((b[1] % 4) * 16), "=", "=">>
    ELSE IF Len(b) = 2
         THEN <<Base64Char(b[1] \div 4), Base64Char((b[1] % 4) * 16 + (b[2] \div 16)),
                Base64Char((b[2] % 16) * 4), "=">>
    ELSE <<Base64Char(b[1] \div 4), Base64Char((b[1] % 4) * 16 + (b[2] \div 16)),
           Base64Char((b[2] % 16) * 4 + (b[3] \div 64)), Base64Char(b[3] % 64)>>
             \o toBase64(SubSeq(b, 4, Len(b)))

RECURSIVE StripTrailingPadding(_)
\* replace(/=+$/, ''): the text without the "=" that end it.
StripTrailingPadding(s) ==
    IF s # <<>> /\ s[Len(s)] = "="
    THEN StripTrailingPadding(SubSeq(s, 1, Len(s) - 1))
    ELSE s

\* encodeBase64 with the padding left in place.
encodeBase64Bytes_Padded(data) ==
    toBase64(data)

\* encodeBase64(data) on the bytes themselves.
encodeBase64Bytes(data) ==
    StripTrailingPadding(toBase64(data))

Returned(v) == [kind |-> "returned", val |-> v]

\* new RelayerHttpClient(baseUrl, authKey): the instance and its fields.
RelayerHttpClientNew(baseUrl, secret) ==
    Returned([baseURL |-> baseUrl, authKey |-> decodeBase64(secret)])

\* new ExternalMatchClient(apiKey, apiSecret, baseUrl).
ExternalMatchClientNew(key, apiSecret, baseUrl) ==
    LET http == RelayerHttpClientNew(baseUrl, apiSecret)
    IN  IF http.kind = "returned"
        THEN Returned([apiKey |-> key, httpClient |-> http.val])
        ELSE http

\* parseBigJSON reaches its catch block, where it logs the error.
ParseThrows(data) ==
    LET r == ParseValue(data, 1)
    IN  ~(r.ok /\ r.next = Len(data) + 1)

(***************************************************************************)
(* The functions of the program called on their own: the option classes'   *)
(* buildRequestPath, the JSON codec and the constructor.                   *)
(***************************************************************************)
\* The values of gasRefundAddress: none, the empty string, an address, and a
\* string with a character that a query string escapes.
RefundAddresses ==
    {Undefined, Str(<<>>), Str(<<"0","x","a">>), Str(<<"a","&","b">>)}

AllQuoteOptions ==
    [disableGasSponsorship : BOOLEAN, gasRefundAddress : RefundAddresses,
     refundNativeEth : BOOLEAN]

AllAssembleOptions ==
    [doGasEstimation : BOOLEAN, allowShared : BOOLEAN,
     receiverAddress : {Undefined, Str(<<"0","x","b">>)},
     updatedOrder : {Undefined, Ref("order")},
     requestGasSponsorship : BOOLEAN, gasRefundAddress : RefundAddresses]

\* Integers as decimal text: 2^53 - 1, 2^53, their negatives, two longer
\* ones and two small ones.
BigIntegers ==
    {<<"9","0","0","7","1","9","9","2","5","4","7","4","0","9","9","1">>,
     <<"9","0","0","7","1","9","9","2","5","4","7","4","0","9","9","2">>,
     <<"-","9","0","0","7","1","9","9","2","5","4","7","4","0","9","9","2">>,
     <<"-","9","0","0","7","1","9","9","2","5","4","7","4","0","9","9","3">>,
     <<"1","2","3","4","5","6","7","8","9","0","1","2","3","4","5","6","7","8","9","0","1">>,
     <<"-","1","0","0","0","0","0","0","0","0","0","0","0","0","0","0","0","0","0","0","1">>,
     <<"0">>, <<"-","5">>}

\* The texts given to parseBigJSON: JSON texts, and texts that are not.
JsonTexts ==
    {<<"{","}">>, <<"1","2">>, <<"n","u","l","l">>, <<"\"","a","\"">>,
     <<"{","\"","a","\"",":","-","7","}">>}

MalformedTexts ==
    {<<>>, <<"o","o","p","s">>, <<"{">>, <<"{","\"","a","\"",":","}">>, <<"-">>,
     <<"t","r","u">>, <<"{","}","{","}">>, <<"0","1">>, <<"{","\"","a","\"",":","0","0","7","}">>}

\* The secrets given to the constructor: base64 texts of one, two and three
\* bytes, and texts that are not base64.
Secrets ==
    {<<"A","w","=","=">>, <<"A","Q","I","=">>, <<"A","Q","I","D">>,
     <<"A">>, <<"!","!","!","!">>, <<"A","Q","!","I">>, <<"=","A","Q","I">>,
     <<"A","w","=","=","A","w","=","=">>, <<>>}

Called(fn, arg) == [fn |-> fn, arg |-> arg]

\* The bytes given to encodeBase64: every sequence of up to three bytes of a
\* few values, and two digests of 32 bytes.
SomeBytes == {0, 1, 62, 251, 255}

Digests ==
    UNION {[1..n -> SomeBytes] : n \in 0..3}
        \cup {[i \in 1..32 |-> (i * 37) % 256], [i \in 1..32 |-> 255]}

FunInputs ==
    {Called("RequestQuoteOptions.buildRequestPath", o) : o \in AllQuoteOptions}
        \cup {Called("AssembleExternalMatchOptions.buildRequestPath", o) : o \in AllAssembleOptions}
        \cup {Called("stringifyBigJSON", Obj(<<Prop(k_quote_amount, Big(i))>>)) : i \in BigIntegers}
        \cup {Called("parseBigJSON", t) : t \in JsonTexts \cup MalformedTexts}
        \cup {Called("ExternalMatchClient", [apiKey |-> k, apiSecret |-> s, baseUrl |-> u]) :
                 k \in ApiKeys, s \in Secrets, u \in BaseUrls}
        \cup {Called("encodeBase64", d) : d \in Digests}

\* One function is called with one argument.
FunInit ==
    /\ Constructed
    /\ input \in FunInputs
    /\ output = None

Returns(fn, v) ==
    /\ input.fn = fn
    /\ output = None
    /\ output' = v
    /\ UNCHANGED <<input, authKey, apiKey, baseURL, clock, heap, mutations, commonHeaders, pc,
                   op, config, updates, wire, reply, result, phases, posts>>

CallQuoteBuildRequestPath ==
    Returns("RequestQuoteOptions.buildRequestPath", Returned(QuoteBuildRequestPath(input.arg)))

CallAssembleBuildRequestPath ==
    Returns("AssembleExternalMatchOptions.buildRequestPath",
            Returned(AssembleBuildRequestPath(input.arg)))

CallStringifyBigJSON ==
    Returns("stringifyBigJSON", Returned(stringifyBigJSON(input.arg, heap)))

\* parseBigJSON(data): what it returns, and whether it logged an error.
CallParseBigJSON ==
    Returns("parseBigJSON",
            [kind |-> "returned", val |-> parseBigJSON(input.arg),
             logged |-> ParseThrows(input.arg)])

\* The text stringifyBigJSON returned is given to parseBigJSON.
ParseStringified ==
    /\ input.fn = "stringifyBigJSON"
    /\ output # None
    /\ input' = [fn |-> "parseBigJSON", arg |-> output.val, of |-> input.arg]
    /\ output' = None
    /\ UNCHANGED <<authKey, apiKey, baseURL, clock, heap, mutations, commonHeaders, pc,
                   op, config, updates, wire, reply, result, phases, posts>>

CallConstructor ==
    Returns("ExternalMatchClient",
            ExternalMatchClientNew(input.arg.apiKey, input.arg.apiSecret, input.arg.baseUrl))

CallEncodeBase64 ==
    Returns("encodeBase64", Returned(encodeBase64Bytes(input.arg)))

FunNext ==
    \/ CallQuoteBuildRequestPath
    \/ CallAssembleBuildRequestPath
    \/ CallStringifyBigJSON
    \/ ParseStringified
    \/ CallParseBigJSON
    \/ CallConstructor
    \/ CallEncodeBase64

FunSpec == FunInit /\ [][FunNext]_vars

(***************************************************************************)
(* The assemble operation on its own: one call, with every value of the    *)
(* options and with signed quotes that their signatures tell apart.        *)
(***************************************************************************)
\* Signed quotes without gas sponsorship info (signature "s") and with it
\* (signature "t").
MarkedSignedQuotes ==
    {Obj(<<Prop(k_quote, Ref("quote")), Prop(k_signature, Str(<<"s">>))>>),
     Obj(<<Prop(k_quote, Ref("quote")), Prop(k_signature, Str(<<"t">>)),
           Prop(k_gas_sponsorship_info, Obj(<<Prop(k_signature, Str(<<"g">>))>>))>>)}

NextAssemble ==
    \/ \E c \in LifeCalls, copied \in BOOLEAN, q \in MarkedSignedQuotes :
          \/ assembleQuote(c, q, copied)
          \/ \E o \in AllAssembleOptions : assembleQuoteWithOptions(c, q, o, copied)
    \/ \E c \in LifeCalls : Transport(c)
    \/ Environment

AssembleSpec == Init /\ [][NextAssemble]_vars

(***************************************************************************)
(* The four operations on one client, in any order: get and post of the    *)
(* RelayerHttpClient, requestQuote and assembleQuote of the                *)
(* ExternalMatchClient, each answered, answered with nothing, or failed.   *)
(***************************************************************************)
NextOps ==
    \/ \E c \in Calls, copied \in BOOLEAN :
          \/ requestQuote(c, Ref("order"), copied)
          \/ \E q \in SignedQuotes : assembleQuote(c, q, copied)
          \/ \E p \in HttpPaths : get(c, p, <<>>)
          \/ \E p \in HttpPaths : post(c, p, Ref("order"), <<>>, copied)
    \/ \E c \in Calls : Transport(c)
    \/ Environment

OpsSpec == Init /\ [][NextOps]_vars

(***************************************************************************)
(* The quote operation on its own: one call, answered by the quote         *)
(* endpoint with an envelope, with or without gas sponsorship info and     *)
(* with amounts below and above 2^53, or failed.                           *)
(***************************************************************************)
k_match_result == <<"m","a","t","c","h","_","r","e","s","u","l","t">>

\* The quote amounts the server may send: 20, 2^53 + 1 and a 21-digit one.
ServerAmounts ==
    {<<"2","0">>,
     <<"9","0","0","7","1","9","9","2","5","4","7","4","0","9","9","3">>,
     <<"1","2","3","4","5","6","7","8","9","0","1","2","3","4","5","6","7","8","9","0","1">>}

\* An ApiSignedExternalQuote of the server, gas being the gas sponsorship
\* info placed inside it (undefined for none).
ServerSignedQuote(amount, sig, gas) ==
    Obj(<<Prop(k_quote,
               Obj(<<Prop(k_match_result, Obj(<<Prop(k_quote_amount, Big(amount))>>))>>)),
          Prop(k_signature, Str(sig))>>
        \o (IF gas = Undefined THEN <<>> ELSE <<Prop(k_gas_sponsorship_info, gas)>>))

\* A SignedGasSponsorshipInfo, told from another by its signature.
ServerGasInfo(sig) ==
    Obj(<<Prop(k_signature, Str(sig))>>)

\* The ExternalQuoteResponse bodies: without gas sponsorship info, with it
\* at the top level, and with one inside signed_quote (and another, or
\* none, at the top level).
QuoteEnvelopes ==
    {Obj(<<Prop(k_signed_quote, ServerSignedQuote(a, sig, inner))>>
         \o (IF top = Undefined THEN <<>> ELSE <<Prop(k_gas_sponsorship_info, top)>>)) :
        a \in ServerAmounts, sig \in {<<"s">>, <<"t">>},
        inner \in {Undefined, ServerGasInfo(<<"i">>)},
        top \in {Undefined, ServerGasInfo(<<"g">>)}}

\* The 2xx statuses a response with a body may have.
BodyStatuses == {200, 201}

NextQuote ==
    \/ \E c \in LifeCalls, copied \in BOOLEAN, o \in QuoteOptionsSet :
          requestQuoteWithOptions(c, Ref("order"), o, copied)
    \/ \E c \in LifeCalls :
          \/ addAuthInterceptor(c)
          \/ Dispatch(c)
          \/ \E s \in BodyStatuses, e \in QuoteEnvelopes :
                Resolve(c, [status |-> s, raw |-> StringifyValue(e)])
          \/ \E e \in Rejections : Reject(c, e)
          \/ Settle(c)
    \/ Environment

QuoteSpec == Init /\ [][NextQuote]_vars

(***************************************************************************)
(* Calls in flight at once.  A request reaches the interceptor with the    *)
(* headers object the transport made for it, or with none: the interceptor *)
(* provides for both.                                                      *)
(***************************************************************************)
\* A request config handed to the interceptor without a headers object.
RequestWithoutHeaders(c, url, data) ==
    /\ pc[c] = "idle"
    /\ \A d \in Calls : d < c => pc[d] # "idle"
    /\ pc' = [pc EXCEPT ![c] = "queued"]
    /\ op' = [op EXCEPT ![c] = "post"]
    /\ config' = [config EXCEPT ![c] =
            [url |-> url, headers |-> [ref |-> "absent"], data |-> data]]
    /\ posts' = [posts EXCEPT ![c] = @ + 1]
    /\ UNCHANGED <<input, output, authKey, apiKey, baseURL, clock, heap, mutations,
                   commonHeaders, updates, wire, reply, result, phases>>

NextInFlight ==
    \/ \E c \in Calls, p \in HttpPaths, d \in {Undefined, Str(<<"c">>)} :
          \/ post(c, p, d, <<>>, TRUE)
          \/ RequestWithoutHeaders(c, p, d)
    \/ \E c \in Calls : Transport(c)
    \/ Environment

InFlightSpec == Init /\ [][NextInFlight]_vars

(***************************************************************************)
(* One post whose caller passes the same headers in every order, with      *)
(* names in lower, mixed and upper case, for a path with a query string    *)
(* and one without.                                                        *)
(***************************************************************************)
\* Three headers of the prefix, one of them in mixed case, a signature
\* header in upper case and a header without the prefix.
CallerHeaders ==
    {Prop(<<"x","-","r","e","n","e","g","a","d","e","-","c">>, <<"3">>),
     Prop(<<"X","-","R","e","n","e","g","a","d","e","-","B">>, <<"2">>),
     Prop(<<"x","-","r","e","n","e","g","a","d","e","-","a">>, <<"1">>),
     Prop(<<"X","-","R","E","N","E","G","A","D","E","-","A","U","T","H">>, <<"s">>),
     Prop(<<"A","c","c","e","p","t">>, <<"a">>)}

\* The sequences that hold each element of S once.
Orderings(S) ==
    {f \in [1..Cardinality(S) -> S] : \A i, j \in 1..Cardinality(S) : f[i] = f[j] => i = j}

SigningPaths ==
    {<<"/","p">>, <<"/","p","?","a","=","1">>}

NextSigning ==
    \/ \E c \in HttpCalls, p \in SigningPaths, hs \in Orderings(CallerHeaders),
          d \in {Undefined, Str(<<"c">>)} :
          post(c, p, d, hs, TRUE)
    \/ \E c \in HttpCalls : Transport(c)
    \/ Environment

SigningSpec == Init /\ [][NextSigning]_vars

(***************************************************************************)
(* What the claims speak of.                                               *)
(***************************************************************************)
ClientOps == {"quote", "assemble"}

Last(seq) == seq[Len(seq)]

\* The number of headers of hs whose name is `name` in any letter case.
CountHeader(hs, name) ==
    Cardinality({i \in 1..Len(hs) : toLowerCase(hs[i].k) = toLowerCase(name)})

\* The name/value pairs of the headers of hs whose lower-cased name starts
\* with x-renegade, the signature header (in any letter case) left out.
RenegadePairs(hs) ==
    {hs[i] : i \in {j \in 1..Len(hs) :
        /\ startsWith(toLowerCase(hs[j].k), RENEGADE_HEADER_PREFIX)
        /\ toLowerCase(hs[j].k) # RENEGADE_AUTH_HEADER}}

\* The name/value pairs a sequence of mac.update calls fed between the path
\* and the body.
FedPairs(ups) ==
    {Prop(ups[2 * i], ups[2 * i + 1]) : i \in 1..((Len(ups) - 2) \div 2)}

\* The value of the header named exactly `name`.
HeaderValue(hs, name) ==
    hs[CHOOSE i \in 1..Len(hs) : hs[i].k = name].v

(***************************************************************************)
(* C1.  Every request RelayerHttpClient transmits carries exactly one      *)
(* x-renegade-auth-expiration header and exactly one x-renegade-auth       *)
(* header, and the x-renegade-auth value is the MAC of exactly the path,   *)
(* the x-renegade headers (other than x-renegade-auth) and the body that   *)
(* are transmitted with it.                                                *)
(***************************************************************************)
C1_SignedAsSent ==
    \A c \in Calls :
        wire[c] # None =>
            /\ CountHeader(wire[c].headers, RENEGADE_AUTH_EXPIRATION_HEADER) = 1
            /\ CountHeader(wire[c].headers, RENEGADE_AUTH_HEADER) = 1
            /\ HeaderValue(wire[c].headers, RENEGADE_AUTH_HEADER)
                  = encodeBase64(HmacDigest(authKey, updates[c]))
            /\ updates[c][1] = wire[c].url
            /\ FedPairs(updates[c]) = RenegadePairs(wire[c].headers)
            /\ Last(updates[c]) = wire[c].body

(***************************************************************************)
(* C2.  The body bytes fed to the MAC by the interceptor are the bytes     *)
(* transformRequest later produces and the transport transmits, for an     *)
(* object, a string and an absent body, also when the caller changes the   *)
(* order or the quote between the two steps.                               *)
(***************************************************************************)
C2_SignedBodyIsSentBody ==
    \A c \in Calls :
        wire[c] # None => Last(updates[c]) = wire[c].body

(***************************************************************************)
(* The requests a signed request is compared with: every path, header set  *)
(* and body of the model, signed at every time with every key.             *)
(***************************************************************************)
OtherBodies ==
    {Undefined, Str(<<"c">>), Str(<<"b","c">>), InitialObject("order"), MutatedObject("order")}

OtherRequests ==
    [url : HttpPaths,
     headers : {MergeHeaders(InstanceDefaultHeaders, hs) : hs \in HttpHeaderSets},
     data : OtherBodies,
     now : 0..MaxClock,
     key : AuthKeys]

\* What the interceptor computes for one of them.
OtherSigned ==
    [a \in OtherRequests |->
        LET ups == MacUpdates(a.url, HeadersToSign(a.headers, a.now), a.data, InitialHeap)
            hs == HeadersSigned(a.headers, a.now, a.key, ups)
        IN  [updates |-> ups,
             headers |-> hs,
             signature |-> HeaderValue(hs, RENEGADE_AUTH_HEADER),
             inputs |-> [key |-> a.key, path |-> a.url, pairs |-> RenegadePairs(hs),
                         body |-> BodyToSign(a.data, InitialHeap)],
             shape |-> <<Len(a.url)>> \o [i \in 1..(Len(ups) - 1) |-> Len(ups[i + 1])]]]

\* Those of them that have the key and the path of the signed call c.
OthersLike(c) ==
    {a \in OtherRequests : a.key = authKey /\ a.url = config[c].url}

\* Those of them that have the key of the client.
OthersOfKey ==
    {a \in OtherRequests : a.key = authKey}

\* The calls whose signature has been computed.
SignedCalls ==
    {c \in Calls : pc[c] = "signed"}

\* The four inputs of the signature of a signed call: the key, the path, the
\* x-renegade name/value pairs of its headers, and the body that was signed.
SignatureInputs(c) ==
    [key |-> authKey, path |-> config[c].url,
     pairs |-> RenegadePairs(HeadersOf(config[c], commonHeaders)),
     body |-> Last(updates[c])]

(***************************************************************************)
(* C3.  The signature is a function of the key, the path, the set of       *)
(* name/value pairs of the x-renegade headers other than x-renegade-auth,  *)
(* and the body: two requests that agree on these get the same             *)
(* x-renegade-auth value, whatever other headers they carry and in         *)
(* whatever order their headers were given.                                *)
(***************************************************************************)
C3_SignatureIsFunctionOfInputs ==
    \A c \in SignedCalls : \A a \in OthersLike(c) :
        OtherSigned[a].inputs = SignatureInputs(c)
            => OtherSigned[a].signature
                  = HeaderValue(HeadersOf(config[c], commonHeaders), RENEGADE_AUTH_HEADER)

\* A signed request and another with the same inputs and other headers.
C3_Witness ==
    \E c \in SignedCalls : \E a \in OthersLike(c) :
        /\ OtherSigned[a].inputs = SignatureInputs(c)
        /\ OtherSigned[a].headers # HeadersOf(config[c], commonHeaders)
        /\ \E i \in 1..Len(a.headers) : a.headers[i].k = <<"A","c","c","e","p","t">>

(***************************************************************************)
(* C4.  The x-renegade-auth header is never part of the MAC input: a       *)
(* header of that name, in any letter case, that the request already       *)
(* carries is not fed to the MAC, while x-renegade-auth-expiration is.     *)
(***************************************************************************)
C4_AuthHeaderNotSigned ==
    \A c \in Calls :
        updates[c] # <<>> =>
            /\ \A e \in FedPairs(updates[c]) :
                  toLowerCase(e.k) # RENEGADE_AUTH_HEADER
            /\ \E e \in FedPairs(updates[c]) :
                  /\ e.k = RENEGADE_AUTH_EXPIRATION_HEADER
                  /\ e.v = HeaderValue(HeadersOf(config[c], commonHeaders),
                                       RENEGADE_AUTH_EXPIRATION_HEADER)

\* A signed request that carried an X-Renegade-Auth header of the caller.
C4_Witness ==
    \E c \in Calls :
        /\ updates[c] # <<>>
        /\ HasKey(HeadersOf(config[c], commonHeaders),
                  <<"X","-","R","e","n","e","g","a","d","e","-","A","u","t","h">>)

(***************************************************************************)
(* C5.  Sensitivity, as claimed: no two requests that differ in the path,  *)
(* in the sorted list of signed header names and values or in the body     *)
(* feed the same bytes to the MAC, also when bytes move across the         *)
(* boundaries between path, header name, header value and body.            *)
(***************************************************************************)
C5_Original_NoTwoRequestsCollide ==
    \A c \in SignedCalls : \A a \in OthersOfKey :
        OtherSigned[a].inputs # SignatureInputs(c)
        => Flatten(OtherSigned[a].updates) # Flatten(updates[c])

(***************************************************************************)
(* C5, amended.  Two requests whose paths, whose signed header names and   *)
(* values (in sorted order) and whose bodies have the same lengths one by  *)
(* one, and that differ in a byte of any of them, feed different bytes to  *)
(* the MAC.                                                                *)
(***************************************************************************)
\* The lengths of the path, of each signed name and value, and of the body.
SignedShape(c) ==
    <<Len(config[c].url)>> \o [i \in 1..(Len(updates[c]) - 1) |-> Len(updates[c][i + 1])]

C5_SameShapeNoCollision ==
    \A c \in SignedCalls : \A a \in OthersOfKey :
        /\ OtherSigned[a].shape = SignedShape(c)
        /\ OtherSigned[a].inputs # SignatureInputs(c)
        => Flatten(OtherSigned[a].updates) # Flatten(updates[c])

\* Two requests of the same shape that differ.
C5_Witness ==
    \E c \in SignedCalls : \E a \in OthersOfKey :
        /\ OtherSigned[a].shape = SignedShape(c)
        /\ OtherSigned[a].inputs # SignatureInputs(c)
        /\ Len(updates[c]) > 4

\* The calls of the match client that have returned or thrown.
FinishedCalls ==
    {c \in Calls : pc[c] = "done" /\ op[c] \in ClientOps}

\* The transport gave the call no result: a response of status 204 or of an
\* empty or absent body, or an error object whose status is 204.
NoContent(r) ==
    \/ r.kind = "response" /\ (r.status = 204 \/ ~Truthy(r.data))
    \/ r.kind = "error" /\ r.status = Num(204)

\* The transport failed: an error object whose status is not 204.
Failure(r) ==
    r.kind = "error" /\ r.status # Num(204)

(***************************************************************************)
(* C6.  For requestQuoteWithOptions and assembleQuoteWithOptions, a        *)
(* response of status 204 or of an empty or absent body makes the call     *)
(* return null, and so does a transport error object whose status is 204:  *)
(* the call neither throws nor returns a value.                            *)
(***************************************************************************)
C6_NoContentReturnsNull ==
    \A c \in FinishedCalls :
        NoContent(reply[c]) => result[c] = ReturnNull

\* Both operations have returned null: for a response of status 200 and an
\* empty body, and for an error object of status 204.
C6_Witness ==
    /\ \E c \in FinishedCalls :
          /\ op[c] = "quote"
          /\ reply[c].kind = "response" /\ reply[c].status = 200
          /\ result[c] = ReturnNull
    /\ \E c \in FinishedCalls :
          /\ op[c] = "assemble"
          /\ reply[c].kind = "error"
          /\ result[c] = ReturnNull

(***************************************************************************)
(* C7.  When the transport reports a status S that is neither 2xx nor 204, *)
(* the call throws an ExternalMatchClientError whose statusCode is S; when *)
(* the failure has no status, its statusCode is undefined.                 *)
(***************************************************************************)
C7_FailureCarriesStatus ==
    \A c \in FinishedCalls :
        Failure(reply[c]) =>
            /\ result[c].kind = "error"
            /\ result[c].name = "ExternalMatchClientError"
            /\ result[c].statusCode = reply[c].status

\* One call has thrown with status 500 and another without a status.
C7_Witness ==
    /\ \E c \in FinishedCalls :
          Failure(reply[c]) /\ result[c].kind = "error" /\ result[c].statusCode = Num(500)
    /\ \E c \in FinishedCalls :
          Failure(reply[c]) /\ result[c].kind = "error" /\ result[c].statusCode = Undefined

(***************************************************************************)
(* C8.  Every error that leaves requestQuote, requestQuoteWithOptions,     *)
(* assembleQuote or assembleQuoteWithOptions is an ExternalMatchClientError*)
(* with a message that is not empty, also when it was raised while reading *)
(* a 2xx response whose body has not the expected shape.                   *)
(***************************************************************************)
C8_OnlyClientErrors ==
    \A c \in FinishedCalls :
        result[c].kind = "error" =>
            /\ result[c].name = "ExternalMatchClientError"
            /\ result[c].message # <<>>

\* A call has thrown on a 2xx response (its body is text that is no JSON, or
\* has no signed_quote), and a call has thrown on an error without a message.
C8_Witness ==
    /\ \E c \in FinishedCalls :
          reply[c].kind = "response" /\ result[c].kind = "error"
    /\ \E c \in FinishedCalls :
          /\ reply[c].kind = "error" /\ reply[c].message = <<>>
          /\ result[c].kind = "error"

(***************************************************************************)
(* C9.  Each call of requestQuoteWithOptions or assembleQuoteWithOptions   *)
(* gives exactly one request to the transport: none is sent after a        *)
(* failure, and the failure reaches the caller as the call's next step.    *)
(***************************************************************************)
C9_OneRequestNoRetry ==
    /\ [](\A c \in Calls : op[c] \in ClientOps => posts[c] = 1)
    /\ [][\A c \in Calls :
            (op[c] \in ClientOps /\ pc[c] = "settled" /\ Failure(reply[c]) /\ pc'[c] # pc[c])
                => /\ pc'[c] = "done"
                   /\ result'[c].kind = "error"
                   /\ posts'[c] = posts[c]]_vars

\* A call whose request failed has thrown.
C9_Witness ==
    \E c \in FinishedCalls :
        Failure(reply[c]) /\ result[c].kind = "error" /\ posts[c] = 1

(***************************************************************************)
(* C10.  Each quote or assemble call goes building -> sending -> exactly   *)
(* one of resolved (data that is not null returned), empty (null returned) *)
(* or failed (error thrown): it reaches no second outcome, leaves no       *)
(* outcome, reaches none without sending and, the transport answering or   *)
(* failing, reaches one in the end.                                        *)
(***************************************************************************)
Outcomes == {"resolved", "empty", "failed"}

PhasesOk(c) ==
    \/ phases[c] = <<>> /\ pc[c] = "idle"
    \/ phases[c] = <<"building", "sending">> /\ pc[c] \in {"queued", "signed", "sent", "settled"}
    \/ /\ Len(phases[c]) = 3
       /\ SubSeq(phases[c], 1, 2) = <<"building", "sending">>
       /\ pc[c] = "done"
       /\ wire[c] # None
       /\ \/ phases[c][3] = "resolved" /\ result[c].kind = "value" /\ Truthy(result[c].val)
          \/ phases[c][3] = "empty" /\ result[c] = ReturnNull
          \/ phases[c][3] = "failed" /\ result[c].kind = "error"

C10_Lifecycle ==
    /\ [](\A c \in LifeCalls : PhasesOk(c))
    /\ [][\A c \in LifeCalls :
            Len(phases[c]) = 3 => (phases'[c] = phases[c] /\ result'[c] = result[c])]_vars
    /\ \A c \in LifeCalls :
            (Len(phases[c]) = 2) ~> (Len(phases[c]) = 3 /\ phases[c][3] \in Outcomes)

\* A call has ended in each of the three outcomes is shown by three runs;
\* here: a call has resolved with data.
C10_Witness ==
    \E c \in LifeCalls :
        /\ Len(phases[c]) = 3
        /\ phases[c][3] = "resolved"
        /\ result[c].kind = "value"

\* The function called on its own has returned.
HasReturned(fn) ==
    input.fn = fn /\ output # None

\* A refund address is set: a string that is not empty.
AddressSet(a) ==
    a.t = "string" /\ a.v # <<>>

\* The text of a value in a query string: the value itself when it is made
\* of letters, digits and * - . _ only (as an address is), its percent
\* encoding otherwise.
QueryValue(v) ==
    IF \A i \in 1..Len(v) : v[i] \in FormSafe THEN v ELSE FormEncode(v)

(***************************************************************************)
(* C11.  RequestQuoteOptions.buildRequestPath returns                      *)
(* '/v0/matching-engine/quote?' followed by disable_gas_sponsorship=<bool> *)
(* always, then refund_address=<address> exactly when a refund address     *)
(* that is not empty is set, then refund_native_eth=true exactly when      *)
(* refundNativeEth is true, in that order; with the default options it is  *)
(* '/v0/matching-engine/quote?disable_gas_sponsorship=false'.              *)
(***************************************************************************)
C11_QuotePath ==
    HasReturned("RequestQuoteOptions.buildRequestPath") =>
        LET o == input.arg
        IN  /\ output.val =
                 <<"/","v","0","/","m","a","t","c","h","i","n","g","-","e","n","g","i","n","e","/","q","u","o","t","e","?">>
                 \o <<"d","i","s","a","b","l","e","_","g","a","s","_","s","p","o","n","s","o","r","s","h","i","p","=">>
                 \o (IF o.disableGasSponsorship THEN <<"t","r","u","e">> ELSE <<"f","a","l","s","e">>)
                 \o (IF AddressSet(o.gasRefundAddress)
                     THEN <<"&","r","e","f","u","n","d","_","a","d","d","r","e","s","s","=">>
                              \o QueryValue(o.gasRefundAddress.v)
                     ELSE <<>>)
                 \o (IF o.refundNativeEth
                     THEN <<"&","r","e","f","u","n","d","_","n","a","t","i","v","e","_","e","t","h","=","t","r","u","e">>
                     ELSE <<>>)
            /\ o = RequestQuoteOptionsNew =>
                 output.val = <<"/","v","0","/","m","a","t","c","h","i","n","g","-","e","n","g","i","n","e","/","q","u","o","t","e","?","d","i","s","a","b","l","e","_","g","a","s","_","s","p","o","n","s","o","r","s","h","i","p","=","f","a","l","s","e">>

\* The path of options with a refund address and refundNativeEth has been
\* built.
C11_Witness ==
    /\ HasReturned("RequestQuoteOptions.buildRequestPath")
    /\ input.arg.gasRefundAddress = Str(<<"0","x","a">>)
    /\ input.arg.refundNativeEth
    /\ ~input.arg.disableGasSponsorship

(***************************************************************************)
(* C12.  AssembleExternalMatchOptions.buildRequestPath returns the bare    *)
(* path '/v0/matching-engine/assemble-external-match', with no '?',        *)
(* exactly when requestGasSponsorship is false and no refund address is    *)
(* set; with requestGasSponsorship true and no refund address it returns   *)
(* that path followed by '?disable_gas_sponsorship=false'; doGasEstimation,*)
(* allowShared, receiverAddress and updatedOrder never change the path.    *)
(***************************************************************************)
C12_AssemblePath ==
    HasReturned("AssembleExternalMatchOptions.buildRequestPath") =>
        LET o == input.arg
            bare == <<"/","v","0","/","m","a","t","c","h","i","n","g","-","e","n","g","i","n","e","/","a","s","s","e","m","b","l","e","-","e","x","t","e","r","n","a","l","-","m","a","t","c","h">>
            plain == ~o.requestGasSponsorship /\ ~AddressSet(o.gasRefundAddress)
        IN  /\ (output.val = bare) <=> plain
            /\ (\A i \in 1..Len(output.val) : output.val[i] # "?") <=> plain
            /\ (o.requestGasSponsorship /\ ~AddressSet(o.gasRefundAddress)) =>
                 output.val = bare \o <<"?","d","i","s","a","b","l","e","_","g","a","s","_","s","p","o","n","s","o","r","s","h","i","p","=","f","a","l","s","e">>
            /\ \A p \in AllAssembleOptions :
                 (/\ p.requestGasSponsorship = o.requestGasSponsorship
                  /\ p.gasRefundAddress = o.gasRefundAddress)
                     => AssembleBuildRequestPath(p) = output.val

\* The path of options that ask for gas sponsorship, without a refund
\* address and with the other options set, has been built.
C12_Witness ==
    /\ HasReturned("AssembleExternalMatchOptions.buildRequestPath")
    /\ input.arg.requestGasSponsorship
    /\ input.arg.gasRefundAddress = Undefined
    /\ input.arg.doGasEstimation
    /\ input.arg.updatedOrder # Undefined

\* The assemble requests that were transmitted.
SentAssembles ==
    {c \in Calls : op[c] = "assemble" /\ wire[c] # None}

\* The names of the own properties of an object, in their order.
Keys(x) ==
    [i \in 1..Len(x.v) |-> x.v[i].k]

\* The text s holds the text sub.
Contains(s, sub) ==
    \E i \in 1..(Len(s) - Len(sub) + 1) : SubSeq(s, i, i + Len(sub) - 1) = sub

(***************************************************************************)
(* C13.  For every SignedExternalQuote given to assembleQuoteWithOptions,  *)
(* also one that carries gas_sponsorship_info, the signed_quote of the     *)
(* request body holds the quote and the signature of the input and nothing *)
(* else, and gas_sponsorship_info appears nowhere in the body.             *)
(***************************************************************************)
C13_SignedQuoteStripped ==
    \A c \in SentAssembles :
        LET sq == GetProp(parseBigJSON(wire[c].body), k_signed_quote)
        IN  /\ sq.t = "object"
            /\ Keys(sq) = <<k_quote, k_signature>>
            /\ GetProp(sq, k_signature) \in {Str(<<"s">>), Str(<<"t">>)}
            /\ GetProp(sq, k_quote) \in {InitialObject("quote"), MutatedObject("quote")}
            /\ heap["quote"] = InitialObject("quote")
                  => GetProp(sq, k_quote) = InitialObject("quote")
            /\ ~Contains(wire[c].body, k_gas_sponsorship_info)

\* The quote that carries gas_sponsorship_info (its signature is "t") has
\* been sent.
C13_Witness ==
    \E c \in SentAssembles :
        GetProp(GetProp(parseBigJSON(wire[c].body), k_signed_quote), k_signature) = Str(<<"t">>)

(***************************************************************************)
(* C14.  The body of every assemble request has no top-level fields other  *)
(* than do_gas_estimation, receiver_address, signed_quote and              *)
(* updated_order, and signed_quote is always present.                      *)
(***************************************************************************)
C14_AssembleBodyFields ==
    \A c \in SentAssembles :
        LET body == parseBigJSON(wire[c].body)
        IN  /\ body.t = "object"
            /\ \A i \in 1..Len(body.v) :
                 body.v[i].k \in {k_do_gas_estimation, k_receiver_address,
                                  k_signed_quote, k_updated_order}
            /\ GetProp(body, k_signed_quote).t = "object"

\* The requests of the match client's operations that were transmitted.
SentClientCalls ==
    {c \in Calls : op[c] \in ClientOps /\ wire[c] # None}

(***************************************************************************)
(* C15.  Every request of requestQuoteWithOptions or                       *)
(* assembleQuoteWithOptions carries, when it is transmitted, the headers   *)
(* x-renegade-api-key (the client's API key), x-renegade-sdk-version,      *)
(* x-renegade-auth-expiration and x-renegade-auth, and the first three are *)
(* fed to the MAC with the values transmitted.                             *)
(***************************************************************************)
C15_RequiredHeaders ==
    \A c \in SentClientCalls :
        LET hs == wire[c].headers
        IN  /\ \A name \in {RENEGADE_API_KEY_HEADER, RENEGADE_SDK_VERSION_HEADER,
                            RENEGADE_AUTH_EXPIRATION_HEADER, RENEGADE_AUTH_HEADER} :
                 CountHeader(hs, name) = 1 /\ HasKey(hs, name)
            /\ HeaderValue(hs, RENEGADE_API_KEY_HEADER) = apiKey
            /\ HeaderValue(hs, RENEGADE_SDK_VERSION_HEADER) # <<>>
            /\ \A name \in {RENEGADE_API_KEY_HEADER, RENEGADE_SDK_VERSION_HEADER,
                            RENEGADE_AUTH_EXPIRATION_HEADER} :
                 Prop(name, HeaderValue(hs, name)) \in FedPairs(updates[c])

\* A quote request and an assemble request have been transmitted.
C15_Witness ==
    /\ \E c \in SentClientCalls : op[c] = "quote"
    /\ \E c \in SentClientCalls : op[c] = "assemble"

\* The value of the expiration header of a request that has been signed.
ExpirationOf(cfg, common) ==
    HeaderValue(HeadersOf(cfg, common), RENEGADE_AUTH_EXPIRATION_HEADER)

DigitValue(ch) ==
    (CHOOSE i \in 1..10 : Digits[i] = ch) - 1

\* a <= b, for the decimal texts of two natural numbers.
DecimalLeq(a, b) ==
    \/ Len(a) < Len(b)
    \/ /\ Len(a) = Len(b)
       /\ \/ a = b
          \/ LET i == MinOf({j \in 1..Len(a) : a[j] # b[j]})
             IN  DigitValue(a[i]) < DigitValue(b[i])

\* The calls whose request the interceptor has signed.
PastInterceptor(c) ==
    pc[c] \in {"signed", "sent", "settled", "done"}

(***************************************************************************)
(* C16.  The x-renegade-auth-expiration value of every request is the      *)
(* decimal text of the clock reading at signing plus 10000; it is set      *)
(* before the MAC is computed, so the value signed is the value sent; and  *)
(* a request signed after another, the clock not going back, gets an       *)
(* expiration that is not smaller.                                         *)
(***************************************************************************)
C16_Expiration ==
    /\ [][\A c \in Calls :
            (pc[c] = "queued" /\ pc'[c] = "signed") =>
                LET e == ExpirationOf(config'[c], commonHeaders')
                IN  /\ e = IntToString(clock + 10000)
                    /\ Prop(RENEGADE_AUTH_EXPIRATION_HEADER, e) \in FedPairs(updates'[c])
                    /\ \A d \in Calls :
                         PastInterceptor(d) =>
                             DecimalLeq(ExpirationOf(config[d], commonHeaders), e)]_vars
    /\ [](\A c \in Calls :
            wire[c] # None =>
                /\ HeaderValue(wire[c].headers, RENEGADE_AUTH_EXPIRATION_HEADER)
                      = ExpirationOf(config[c], commonHeaders)
                /\ Prop(RENEGADE_AUTH_EXPIRATION_HEADER,
                        HeaderValue(wire[c].headers, RENEGADE_AUTH_EXPIRATION_HEADER))
                      \in FedPairs(updates[c]))

\* Two requests were signed at different clock readings and sent.
C16_Witness ==
    \E c, d \in Calls :
        /\ wire[c] # None /\ wire[d] # None
        /\ HeaderValue(wire[c].headers, RENEGADE_AUTH_EXPIRATION_HEADER) = <<"1","0","0","0","0">>
        /\ HeaderValue(wire[d].headers, RENEGADE_AUTH_EXPIRATION_HEADER) = <<"1","0","0","0","1">>

\* The digits of a decimal text, without its sign.
Magnitude(i) ==
    IF i # <<>> /\ Head(i) = "-" THEN Tail(i) ELSE i

\* The integer exceeds 2^53 - 1 in magnitude.
ExceedsSafe(i) ==
    ~DecimalLeq(Magnitude(i), <<"9","0","0","7","1","9","9","2","5","4","7","4","0","9","9","1">>)

\* parseBigJSON has returned for the text stringifyBigJSON gave.
RoundTripDone ==
    /\ HasReturned("parseBigJSON")
    /\ "of" \in DOMAIN input

(***************************************************************************)
(* C17.  Round trip: for every integer I of magnitude above 2^53 - 1,      *)
(* positive or negative, parseBigJSON(stringifyBigJSON({quote_amount: I})) *)
(* holds I exactly, and stringifyBigJSON writes I as a bare integer        *)
(* literal, without quotes, fraction or exponent.                          *)
(***************************************************************************)
C17_BigIntRoundTrip ==
    RoundTripDone =>
        LET i == GetProp(input.of, k_quote_amount).v
        IN  ExceedsSafe(i) =>
                /\ input.arg = <<"{","\"","q","u","o","t","e","_","a","m","o","u","n","t","\"",":">>
                                  \o i \o <<"}">>
                /\ output.val = Obj(<<Prop(k_quote_amount, Big(i))>>)
                /\ ~output.logged

\* The round trip of -(2^53 + 1) has been made.
C17_Witness ==
    /\ RoundTripDone
    /\ GetProp(input.of, k_quote_amount).v
          = <<"-","9","0","0","7","1","9","9","2","5","4","7","4","0","9","9","3">>
    /\ output.val.t = "object"


\* A number of the text starts with a zero that another digit follows, which
\* the JSON grammar forbids (the texts tried hold no digit inside a string).
LeadingZero(data) ==
    \E i \in 1..(Len(data) - 1) :
        /\ data[i] = "0"
        /\ IsDigit(data[i + 1])
        /\ (i = 1 \/ ~IsDigit(data[i - 1]))

\* The text is a JSON text.
ValidJson(data) ==
    /\ ~ParseThrows(data)
    /\ ~LeadingZero(data)

(***************************************************************************)
(* C18.  parseBigJSON never raises: for every input string that is not     *)
(* valid JSON it returns that same string unchanged and emits a            *)
(* diagnostic.                                                             *)
(***************************************************************************)
C18_MalformedReturnedRaw ==
    (HasReturned("parseBigJSON") /\ ~ValidJson(input.arg)) =>
        /\ output.kind = "returned"
        /\ output.val = Str(input.arg)
        /\ output.logged


\* The text is base64 as RFC 4648 writes it: a multiple of four characters,
\* all of the alphabet but for one or two "=" that end it.
WellFormedBase64(s) ==
    /\ Len(s) % 4 = 0
    /\ \E pad \in 0..2 :
          /\ pad <= Len(s)
          /\ \A i \in 1..Len(s) :
                IF i > Len(s) - pad THEN s[i] = "=" ELSE IsBase64Char(s[i])

\* The constructor call has ended, with an instance or with an error.
ConstructorEnded ==
    /\ input.fn = "ExternalMatchClient"
    /\ output # None

(***************************************************************************)
(* C19.  Constructing a client with a secret that is not well-formed       *)
(* base64 fails at construction time: no client instance exists, and so no *)
(* key derived from a malformed secret.                                    *)
(***************************************************************************)
C19_MalformedSecretFails ==
    (ConstructorEnded /\ ~WellFormedBase64(input.arg.apiSecret)) =>
        output.kind # "returned"


\* The requests that have been transmitted.
SentCalls ==
    {c \in Calls : wire[c] # None}

(***************************************************************************)
(* C20.  After construction, no sequence of get, post, requestQuote or     *)
(* assembleQuote calls (successful, empty or failed) changes the client's  *)
(* authentication key, API key or base URL: every request is signed with   *)
(* the key decoded at construction and sent to the base URL given then,    *)
(* and the outcome of a call does not depend on earlier calls: two calls   *)
(* of the same operation that are answered alike end alike.                *)
(***************************************************************************)
C20_ClientUnchangedByCalls ==
    /\ [][authKey' = authKey /\ apiKey' = apiKey /\ baseURL' = baseURL]_vars
    /\ [](\A c \in SentCalls :
             /\ HeaderValue(wire[c].headers, RENEGADE_AUTH_HEADER)
                   = encodeBase64(HmacDigest(authKey, updates[c]))
             /\ wire[c].baseURL = baseURL
             /\ op[c] \in ClientOps =>
                   HeaderValue(wire[c].headers, RENEGADE_API_KEY_HEADER) = apiKey)
    /\ [](\A c, d \in Calls :
             (pc[c] = "done" /\ pc[d] = "done" /\ op[c] = op[d] /\ reply[c] = reply[d])
                 => result[c] = result[d])

\* A call that failed was followed by a call of the same operation that was
\* answered, and a request of each went out.
C20_Witness ==
    /\ pc[1] = "done" /\ pc[2] = "done"
    /\ op[1] = "quote" /\ op[2] = "quote"
    /\ reply[1].kind = "error" /\ reply[2].kind = "response"
    /\ Terminal(result[1]) = "failed" /\ Terminal(result[2]) = "resolved"
    /\ SentCalls = Calls


\* The quote calls that have ended after a response with a body.
AnsweredQuotes ==
    {c \in LifeCalls : /\ pc[c] = "done" /\ op[c] = "quote"
                       /\ reply[c].kind = "response"}

\* quote.match_result.quote_amount of a signed quote.
QuoteAmountOf(sq) ==
    GetProp(GetProp(GetProp(sq, k_quote), k_match_result), k_quote_amount)

(***************************************************************************)
(* C21.  When the quote endpoint answers 2xx with a well-formed envelope   *)
(* {signed_quote: {quote, signature}, gas_sponsorship_info?}, the call     *)
(* returns a signed quote whose quote and signature are those of           *)
(* signed_quote and whose gas_sponsorship_info is the envelope's top-level *)
(* one (undefined when the envelope has none); the envelope read is the    *)
(* one the server wrote, so quote.match_result.quote_amount is the         *)
(* server's integer exactly, also above 2^53.                              *)
(***************************************************************************)
C21_QuoteFromEnvelope ==
    \A c \in AnsweredQuotes :
        \E e \in QuoteEnvelopes :
            /\ reply[c].data = e
            /\ result[c].kind = "value"
            /\ GetProp(result[c].val, k_quote) = GetProp(GetProp(e, k_signed_quote), k_quote)
            /\ GetProp(result[c].val, k_signature)
                  = GetProp(GetProp(e, k_signed_quote), k_signature)
            /\ GetProp(result[c].val, k_gas_sponsorship_info)
                  = GetProp(e, k_gas_sponsorship_info)
            /\ QuoteAmountOf(result[c].val) \in {Big(a) : a \in ServerAmounts}

\* The quote returned holds the amount 2^53 + 1 and the top-level gas
\* sponsorship info of an envelope whose signed_quote holds another.
C21_Witness ==
    \E c \in AnsweredQuotes :
        /\ result[c].kind = "value"
        /\ QuoteAmountOf(result[c].val)
              = Big(<<"9","0","0","7","1","9","9","2","5","4","7","4","0","9","9","3">>)
        /\ GetProp(result[c].val, k_gas_sponsorship_info) = ServerGasInfo(<<"g">>)
        /\ GetProp(GetProp(reply[c].data, k_signed_quote), k_gas_sponsorship_info)
              = ServerGasInfo(<<"i">>)


\* The request of call c has been signed and is in flight or has ended.
Signed(c) ==
    pc[c] \in {"signed", "sent", "settled", "done"}

\* The headers object of call c is the one shared by all.
UsesSharedHeaders(c) ==
    Signed(c) /\ config[c].headers.ref = "common"

\* The expiration and signature of the headers of call c are those computed
\* by the interceptor from the call's own path, headers and body.
OwnSignature(c, hs) ==
    /\ FedPairs(updates[c]) = RenegadePairs(hs)
    /\ HeaderValue(hs, RENEGADE_AUTH_HEADER) = encodeBase64(HmacDigest(authKey, updates[c]))

(***************************************************************************)
(* C22.  For calls in flight at once on one client, under every            *)
(* interleaving of their signing and sending steps, each request's         *)
(* expiration and signature are those computed from its own path, headers  *)
(* and body, from its signing until it is transmitted: no call overwrites  *)
(* the headers of another, and no headers object is shared between two     *)
(* requests, also when a request reaches the interceptor without a headers *)
(* object.                                                                 *)
(***************************************************************************)
C22_NoSharingBetweenCalls ==
    /\ \A c \in Calls :
          /\ pc[c] = "signed" => OwnSignature(c, HeadersOf(config[c], commonHeaders))
          /\ wire[c] # None => OwnSignature(c, wire[c].headers)
    /\ \A c, d \in Calls : (UsesSharedHeaders(c) /\ UsesSharedHeaders(d)) => c = d


\* The names fed to the MAC between the path and the body, in order.
FedNames(ups) ==
    [i \in 1..((Len(ups) - 2) \div 2) |-> ups[2 * i]]

\* The names are in ascending order of localeCompare.
Ascending(names) ==
    \A i, j \in 1..Len(names) : i < j => localeCompare(names[i], names[j]) < 0

\* The names keep their order when they are written in lower case.
AscendingWithoutCase(names) ==
    \A i, j \in 1..Len(names) :
        i < j => localeCompare(toLowerCase(names[i]), toLowerCase(names[j])) <= 0

(***************************************************************************)
(* C23.  The MAC input is fed in a fixed order: first the path with its    *)
(* query string, then for each included header, in ascending order of      *)
(* header name, the name immediately followed by that header's value, then *)
(* the body last; the order in which the caller supplied the headers and   *)
(* the letter case of the names do not change the order of the sequence.   *)
(***************************************************************************)
C23_FedOrder ==
    \A c \in HttpCalls :
        Signed(c) =>
            LET ups == updates[c]
                hs == HeadersOf(config[c], commonHeaders)
            IN  /\ Len(ups) >= 2 /\ Len(ups) % 2 = 0
                /\ ups[1] = config[c].url
                /\ FedPairs(ups) = RenegadePairs(hs)
                /\ Cardinality(FedPairs(ups)) = Len(FedNames(ups))
                /\ Ascending(FedNames(ups))
                /\ AscendingWithoutCase(FedNames(ups))
                /\ FedNames(ups)
                      = <<<<"x","-","r","e","n","e","g","a","d","e","-","a">>,
                          RENEGADE_AUTH_EXPIRATION_HEADER,
                          <<"X","-","R","e","n","e","g","a","d","e","-","B">>,
                          <<"x","-","r","e","n","e","g","a","d","e","-","c">>>>
                /\ wire[c] # None => Last(ups) = wire[c].body

\* A request was sent for a path with a query string and a body, the caller
\* having passed the headers in descending order of name.
C23_Witness ==
    \E c \in HttpCalls :
        /\ wire[c] # None
        /\ wire[c].url = <<"/","p","?","a","=","1">>
        /\ wire[c].body = <<"c">>
        /\ Len(updates[c]) = 10
        /\ \E i, j \in 1..Len(wire[c].headers) :
              /\ i < j
              /\ wire[c].headers[i].k = <<"x","-","r","e","n","e","g","a","d","e","-","c">>
              /\ wire[c].headers[j].k = <<"x","-","r","e","n","e","g","a","d","e","-","a">>


\* The text with "=" added up to a multiple of four characters.
Repadded(s) ==
    s \o [i \in 1..((4 - (Len(s) % 4)) % 4) |-> "="]

(***************************************************************************)
(* C24.  The x-renegade-auth value is the base64 encoding of the raw MAC   *)
(* digest bytes with every trailing "=" removed: for every digest the      *)
(* value holds no "=" character, and padding it again to a multiple of     *)
(* four characters gives well-formed base64 that decodes to the digest     *)
(* bytes.                                                                  *)
(***************************************************************************)
C24_UnpaddedBase64 ==
    HasReturned("encodeBase64") =>
        LET v == output.val
        IN  /\ \A i \in 1..Len(v) : v[i] # "=" /\ IsBase64Char(v[i])
            /\ Len(v) = (Len(input.arg) * 4 + 2) \div 3
            /\ WellFormedBase64(Repadded(v))
            /\ decodeBase64(Repadded(v)) = input.arg
            /\ decodeBase64(v) = input.arg

\* A digest of 32 bytes has been encoded: 43 characters, one "=" removed.
C24_Witness ==
    /\ HasReturned("encodeBase64")
    /\ Len(input.arg) = 32
    /\ Len(output.val) = 43
    /\ Repadded(output.val) = Append(output.val, "=")

=============================================================================
